---- MODULE Spec2Model ----
(***************************************************************************)
(* tmux-adapter: per-agent prompt choreography (internal/nudge), the       *)
(* WebSocket request handlers (internal/ws/handler.go), the REST prompt    *)
(* endpoint (internal/rest) and the output subscription path.              *)
(***************************************************************************)
EXTENDS FiniteSets, Integers, Naturals, Sequences, TLC

(* ------------------------------------------------------------------ *)
(* Bounds                                                              *)
(* ------------------------------------------------------------------ *)
MaxReq == 2

MaxSubReq == 2

MaxChunks == 1

(* Chunks read by the pipe-pane reader in the fan-out specification. *)
MaxFanChunks == 3

(* Binary frames read from a connection. *)
MaxFrames == 2

(* Largest number of bytes drawn for the beginning of an uploaded file. *)
MaxHeadLen == 2

(* Largest number of full send-keys chunks in a keyboard payload. *)
MaxKeyChunks == 2

(* Requests read by the agent handlers, events emitted by the registry. *)
MaxLifeReq == 2

MaxEvents == 2

(* Commands written to the control connection. *)
MaxCmds == 3

(* Capacity of a subscriber channel (256 in the program), scaled down. *)
ChanCap == 2

(* nudge.go:53  for attempt := 0; attempt < 3; attempt++ *)
MaxEnterAttempts == 3

(* Session names a request may target: "a1" is a live agent, "a3" has   *)
(* no live agent.                                                       *)
Agents == {"a1", "a3"}

Clients == {"c1", "c2"}

(* The names output requests carry: a live agent, a name without agent. *)
SubAgents == {"a1", "a3"}

(* The connection whose read pump issues the prompt and upload requests. *)
PromptClients == {"c1"}

(* The goroutines that call ControlMode.Execute concurrently. *)
Callers == {"k1", "k2"}

(* Request.Stream is a *bool: absent, true or false. *)
StreamFlags == {"absent", "true", "false"}

Prompts == {"hello"}

(* The REST endpoint has no WebSocket client record behind it. *)
HTTP == "http"

VARIABLES
    registry,   \* agents.Registry known set: agent -> "absent" | "attached" | "detached"
    locks,      \* nudge.locks: the agent names that have a mutex in the table
    holder,     \* per-agent sync.Mutex: 0 when unlocked, else the request holding it
    reqs,
    files,      \* the uploaded files saved by handleBinaryFileUpload
       \* every request read so far, with the position of its goroutine
    trace,      \* per agent: the commands submitted to the multiplexer
                \* (ControlMode.Execute) on behalf of that agent, in order
    outq,       \* per client: frames enqueued for the write pump, in order
    connected,  \* per client: the connection is in Server.clients
    outputSubs, \* per client: Client.outputSubs, agent -> channel (0: no entry)
    hpc,        \* per client: position of its read pump inside handleSubscribeOutput
    nsub,       \* per client: number of output requests read so far (ids 1..nsub[c])
    chans,      \* every channel PipePaneManager.Subscribe has returned
    subs,       \* PipePaneManager: per agent, the registered subscriber channels
    refcount,   \* PipePaneManager: per agent, the reference count
    tap,        \* PipePaneManager: per agent, pipe-pane is active
    forwarders, \* the running forwarding goroutines of handleSubscribeOutput
    nchunks,    \* number of chunks the pipe-pane readers have read so far
    agentSub,   \* per client: Client.agentSub
    apc,        \* per client: position of its read pump inside the agent handlers
    sessions,   \* per session name: what the detector reports now
                \* ("absent": no session, or no live agent process in it)
    reloaded,   \* per name: the agent process was restarted since the last scan
    events,     \* the registry's event channel
    nevents,    \* number of events the registry has emitted
    bcast,      \* BroadcastToAgentSubscribers: the call in progress
    cmu,        \* control connection: the caller holding the command mutex ("": free)
    cpc,        \* per caller: its position inside execute and its command number
    cmds,       \* the commands written to the multiplexer, in order, with their outcome
    tmux,       \* the multiplexer: commands answered, block being emitted
    inbound,    \* lines the multiplexer has written and the parser has not yet read
    parser,     \* the parser: markers consumed so far
    discard,    \* command numbers whose late end marker is to be discarded
    reply,      \* the single-slot channel from the parser to the awaiting caller
    conn,       \* control connection: child process, fatal state, notification
                \* channel, executes refused after the fatal state, closed
    stop,       \* Adapter.Stop: steps done, the client list of CloseAll, the
                \* registry, the commands submitted by the steps
    web,        \* Server: the token given to NewServer, s.authToken, and the
                \* last request served at /ws with its response
    pasted,     \* the last call of buildPastePayload: its arguments and its result
    keyed       \* the last call of sendKeyboardPayload: its payload, the commands
                \* it submitted with their outcomes, and the error it returned

promptVars == <<locks, holder, reqs, files>>

subVars == <<connected, outputSubs, hpc, nsub, chans, subs, refcount, tap,
             forwarders, nchunks>>

(* The calls of the pure functions. *)
callVars == <<pasted, keyed>>

ctrlVars == <<cmu, cpc, cmds, tmux, inbound, parser, discard, reply, conn, stop, web,
              callVars>>

lifeVars == <<agentSub, apc, sessions, reloaded, events, nevents, bcast>>

vars == <<registry, trace, outq, promptVars, ctrlVars, subVars, lifeVars>>

(* ------------------------------------------------------------------ *)
(* Frames and commands                                                 *)
(* ------------------------------------------------------------------ *)

(* ws.Response as marshalled for the client; ok is "true", "false" or   *)
(* "absent" (the OK pointer is nil, omitempty).                         *)
JsonFrame(id, type, ok, error) ==
    [kind |-> "json", id |-> id, type |-> type, ok |-> ok, error |-> error,
     agent |-> "", payload |-> "", ch |-> 0]

(* Client.sendError: an error response carrying the request id. *)
ErrorFrame(id, msg) == JsonFrame(id, "error", "absent", msg)

Cmd(t, name, target, arg, ok) ==
    [req |-> t, cmd |-> name, target |-> target, arg |-> arg, ok |-> ok]

(* ControlMode.Execute: the command is written to the control connection. *)
Submit(c) == [trace EXCEPT ![reqs[c.req].agent] = Append(@, c)]

(* ControlMode.SendKeysLiteral / SendKeysRaw / ResizePane *)
SendKeysLiteral(t, target, text, ok) == Cmd(t, "send-keys -l", target, text, ok)

SendKeysRaw(t, target, key, ok) == Cmd(t, "send-keys", target, key, ok)

ResizePane(t, target, delta, ok) == Cmd(t, "resize-pane -y", target, delta, ok)

(* ------------------------------------------------------------------ *)
(* Requests                                                            *)
(* ------------------------------------------------------------------ *)
Req(kind, c, a, p, att, pc, result) ==
    [kind |-> kind, client |-> c, agent |-> a, prompt |-> p, attached |-> att,
     pc |-> pc, attempt |-> 0, result |-> result]

ReqIds == 1..Len(reqs)

(* Registry.GetAgent(name): (agent, ok) *)
GetAgentOk(a) == a \in Agents /\ registry[a] # "absent"

GetAgentAttached(a) == registry[a] = "attached"

(* handleSendPrompt: agent, ok := registry.GetAgent(req.Agent); if !ok *)
PrecheckFailsSkipped(a) == FALSE

PrecheckFails(a) == ~GetAgentOk(a)

(* nudge.GetLock: creates the mutex on first use. *)
GetLock(a) == locks \cup {a}

(* sync.Mutex.Lock blocks while another goroutine holds the mutex. *)
MutexFreeIgnored(a) == TRUE

MutexFree(a) == holder[a] = 0

(* The positions at which a goroutine holds the per-agent lock. *)
HoldingPcs == {"literal", "escape", "enter", "shrink", "restore",
               "upload", "loadw", "load", "paste"}

Idle == [pc |-> "idle", agent |-> "", ch |-> 0, id |-> 0]

(* No broadcast has been made yet. *)
NoBroadcast == [active |-> FALSE, ev |-> [type |-> "", name |-> "", agent |-> "", n |-> 0],
                todo |-> {}, steady |-> {}, sending |-> ""]

(* Strings are sequences of characters; the characters that matter    *)
(* are a token character, another character and the space.             *)
Strs ==
    {<<>>, <<"s">>, <<" ">>, <<"x">>, <<"s", "s">>, <<"s", " ">>, <<" ", "s">>, <<" ", " ">>}

(* strings.TrimSpace *)
RECURSIVE TrimLeft(_)
TrimLeft(str) == IF str # <<>> /\ Head(str) = " " THEN TrimLeft(Tail(str)) ELSE str

RECURSIVE TrimRight(_)
TrimRight(str) ==
    IF str # <<>> /\ str[Len(str)] = " " THEN TrimRight(SubSeq(str, 1, Len(str) - 1)) ELSE str

TrimSpace(str) == TrimRight(TrimLeft(str))

(* No request has been served at /ws yet. *)
NoRequest == [client |-> "", req |-> [scheme |-> "", value |-> <<>>, query |-> <<>>],
              status |-> ""]

(* NewServer: authToken: strings.TrimSpace(authToken) *)
NewServer(authToken) == [configured |-> authToken, token |-> TrimSpace(authToken),
                         last |-> NoRequest]

(* A file as the bytes of its beginning, a run of the letter A and the  *)
(* bytes of its end.                                                   *)
File(head, fill, tail) == [head |-> head, fill |-> fill, tail |-> tail]

(* buildPastePayload has not been called yet. *)
NoPaste == [mimeType |-> "", fileBytes |-> File(<<>>, 0, <<>>), payload |-> "none"]

(* sendKeyboardPayload has not been called yet. *)
NoKeys == [called |-> FALSE, payload |-> <<>>, cmds |-> <<>>, err |-> ""]

InitCore ==
    /\ \E att \in {"attached", "detached"} :
          registry = [a \in Agents |-> IF a = "a1" THEN att ELSE "absent"]
    /\ locks = {}
    /\ holder = [a \in Agents |-> 0]
    /\ reqs = <<>>
    /\ files = <<>>
    /\ trace = [a \in Agents |-> <<>>]
    /\ outq = [c \in Clients |-> <<>>]
    /\ outputSubs = [c \in Clients |-> [a \in Agents |-> 0]]
    /\ hpc = [c \in Clients |-> Idle]
    /\ nsub = [c \in Clients |-> 0]
    /\ chans = <<>>
    /\ subs = [a \in Agents |-> {}]
    /\ refcount = [a \in Agents |-> 0]
    /\ tap = [a \in Agents |-> FALSE]
    /\ forwarders = {}
    /\ nchunks = 0
    /\ agentSub = [c \in Clients |-> FALSE]
    /\ apc = [c \in Clients |-> [pc |-> "idle", id |-> 0]]
    /\ sessions = registry
    /\ reloaded = [a \in Agents |-> FALSE]
    /\ events = <<>>
    /\ nevents = 0
    /\ bcast = NoBroadcast
    /\ cmu = ""
    /\ cpc = [k \in Callers |-> [pc |-> "idle", n |-> 0]]
    /\ cmds = <<>>
    /\ tmux = [done |-> 0, block |-> 0]
    /\ inbound = <<>>
    /\ parser = [done |-> 0]
    /\ discard = {}
    /\ reply = <<>>
    /\ conn = [child |-> "running", dead |-> FALSE, notif |-> "open", refused |-> 0,
               closed |-> FALSE]
    /\ stop = [steps |-> <<>>, copied |-> FALSE, todo |-> {}, registry |-> "running",
               cmds |-> <<>>]
    /\ pasted = NoPaste
    /\ keyed = NoKeys

(* The clients are connected; no token is configured. *)
Init ==
    /\ InitCore
    /\ connected = [c \in Clients |-> TRUE]
    /\ web = NewServer(<<>>)

(* No client is connected yet; the server was given some token. *)
InitAuth ==
    /\ InitCore
    /\ connected = [c \in Clients |-> FALSE]
    /\ \E authToken \in Strs : web = NewServer(authToken)

(* ------------------------------------------------------------------ *)
(* handleSendPrompt (read pump part)                                   *)
(* ------------------------------------------------------------------ *)
handleSendPrompt(c, a, p) ==
    /\ UNCHANGED <<subVars, lifeVars, ctrlVars, files>>
    /\ Len(reqs) < MaxReq
    /\ LET id == Len(reqs) + 1 IN
       IF a = "" THEN
          /\ reqs' = Append(reqs, Req("ws", c, a, p, FALSE, "done", "agent field required"))
          /\ outq' = [outq EXCEPT ![c] = Append(@, ErrorFrame(id, "agent field required"))]
          /\ UNCHANGED locks
       ELSE IF p = "" THEN
          /\ reqs' = Append(reqs, Req("ws", c, a, p, FALSE, "done", "prompt field required"))
          /\ outq' = [outq EXCEPT ![c] = Append(@, ErrorFrame(id, "prompt field required"))]
          /\ UNCHANGED locks
       ELSE IF PrecheckFails(a) THEN
          /\ reqs' = Append(reqs, Req("ws", c, a, p, FALSE, "done", "agent not found"))
          /\ outq' = [outq EXCEPT ![c] =
                         Append(@, JsonFrame(id, "send-prompt", "false", "agent not found"))]
          /\ UNCHANGED locks
       ELSE
          /\ locks' = GetLock(a)
          /\ reqs' = Append(reqs, Req("ws", c, a, p, GetAgentAttached(a), "lock", ""))
          /\ UNCHANGED outq
    /\ UNCHANGED <<registry, holder, trace>>

(* ------------------------------------------------------------------ *)
(* The goroutine: lock.Lock(); defer lock.Unlock(); nudge.Session(...) *)
(* ------------------------------------------------------------------ *)
LockAcquire(t) ==
    /\ UNCHANGED <<subVars, lifeVars, ctrlVars, files>>
    /\ reqs[t].pc = "lock"
    /\ MutexFree(reqs[t].agent)
    /\ holder' = [holder EXCEPT ![reqs[t].agent] = t]
    /\ reqs' = [reqs EXCEPT ![t].pc = IF reqs[t].kind = "upload" THEN "upload" ELSE "literal"]
    /\ UNCHANGED <<registry, locks, trace, outq>>

(* Session returned err (or nil when err = ""): respond, then the       *)
(* deferred Unlock runs.                                                *)
Respond(t, err) ==
    IF reqs[t].kind = "ws"
    THEN outq' = [outq EXCEPT ![reqs[t].client] =
                     Append(@, JsonFrame(t, "send-prompt",
                                         IF err = "" THEN "true" ELSE "false", err))]
    ELSE IF reqs[t].kind = "upload" /\ err # ""
    THEN outq' = [outq EXCEPT ![reqs[t].client] = Append(@, ErrorFrame(0, err))]
    ELSE UNCHANGED outq

FinishKeepsLock(t, err) ==
    /\ Respond(t, err)
    /\ UNCHANGED holder
    /\ reqs' = [reqs EXCEPT ![t].pc = "done",
                            ![t].result = IF err = "" THEN "ok" ELSE err]

Finish(t, err) ==
    /\ Respond(t, err)
    /\ holder' = [holder EXCEPT ![reqs[t].agent] = 0]
    /\ reqs' = [reqs EXCEPT ![t].pc = "done",
                            ![t].result = IF err = "" THEN "ok" ELSE err]

(* Session step 1: ctrl.SendKeysLiteral(session, prompt) *)
SessionLiteral(t) ==
    /\ UNCHANGED <<subVars, lifeVars, ctrlVars, files>>
    /\ reqs[t].pc = "literal"
    /\ \E ok \in BOOLEAN :
          /\ trace' = Submit(SendKeysLiteral(t, reqs[t].agent, reqs[t].prompt, ok))
          /\ IF ok
             THEN /\ reqs' = [reqs EXCEPT ![t].pc = "escape"]
                  /\ UNCHANGED <<holder, outq>>
             ELSE Finish(t, "send literal")
    /\ UNCHANGED <<registry, locks>>

(* Session step 3: ctrl.SendKeysRaw(session, "Escape") *)
SessionEscape(t) ==
    /\ UNCHANGED <<subVars, lifeVars, ctrlVars, files>>
    /\ reqs[t].pc = "escape"
    /\ \E ok \in BOOLEAN :
          /\ trace' = Submit(SendKeysRaw(t, reqs[t].agent, "Escape", ok))
          /\ IF ok
             THEN /\ reqs' = [reqs EXCEPT ![t].pc = "enter"]
                  /\ UNCHANGED <<holder, outq>>
             ELSE Finish(t, "send Escape")
    /\ UNCHANGED <<registry, locks>>

(* The loop condition after a failed attempt: attempt++ ; attempt < 3 *)
EnterRetryOneMore(attempt) == attempt + 1 <= MaxEnterAttempts

EnterRetry(attempt) == attempt + 1 < MaxEnterAttempts

(* if !agent.Attached { wake dance } *)
NeedsWakeAlways(t) == TRUE

NeedsWake(t) == ~reqs[t].attached

(* Session step 4: Enter with retry *)
SessionEnter(t) ==
    /\ UNCHANGED <<subVars, lifeVars, ctrlVars, files>>
    /\ reqs[t].pc = "enter"
    /\ \E ok \in BOOLEAN :
          /\ trace' = Submit(SendKeysRaw(t, reqs[t].agent, "Enter", ok))
          /\ IF ok
             THEN IF NeedsWake(t)
                  THEN /\ reqs' = [reqs EXCEPT ![t].pc = "shrink"]
                       /\ UNCHANGED <<holder, outq>>
                  ELSE Finish(t, "")
             ELSE IF EnterRetry(reqs[t].attempt)
                  THEN /\ reqs' = [reqs EXCEPT ![t].attempt = @ + 1]
                       /\ UNCHANGED <<holder, outq>>
                  ELSE Finish(t, "failed to send Enter after 3 attempts")
    /\ UNCHANGED <<registry, locks>>

(* What Session does after ResizePane(session, "-1") returned ok/err:    *)
(* the error is only logged, the restore follows.                        *)
AfterShrinkReturnsError(ok) == IF ok THEN "restore" ELSE "wake shrink failed"

AfterShrink(ok) == "restore"

(* What Session returns after ResizePane(session, "+1") returned ok/err. *)
AfterRestoreReturnsError(ok) == IF ok THEN "" ELSE "wake restore failed"

AfterRestore(ok) == ""

(* Session step 5a: ctrl.ResizePane(session, "-1") *)
SessionShrink(t) ==
    /\ UNCHANGED <<subVars, lifeVars, ctrlVars, files>>
    /\ reqs[t].pc = "shrink"
    /\ \E ok \in BOOLEAN :
          /\ trace' = Submit(ResizePane(t, reqs[t].agent, "-1", ok))
          /\ IF AfterShrink(ok) = "restore"
             THEN /\ reqs' = [reqs EXCEPT ![t].pc = "restore"]
                  /\ UNCHANGED <<holder, outq>>
             ELSE Finish(t, AfterShrink(ok))
    /\ UNCHANGED <<registry, locks>>

(* Session step 5b: ctrl.ResizePane(session, "+1"); return nil *)
SessionRestore(t) ==
    /\ UNCHANGED <<subVars, lifeVars, ctrlVars, files>>
    /\ reqs[t].pc = "restore"
    /\ \E ok \in BOOLEAN :
          /\ trace' = Submit(ResizePane(t, reqs[t].agent, "+1", ok))
          /\ Finish(t, AfterRestore(ok))
    /\ UNCHANGED <<registry, locks>>

(* ------------------------------------------------------------------ *)
(* rest.Handler.sendPrompt: POST /api/agents/{name}/prompt             *)
(* ------------------------------------------------------------------ *)
sendPrompt(a, p) ==
    /\ UNCHANGED <<subVars, lifeVars, ctrlVars, files>>
    /\ Len(reqs) < MaxReq
    /\ IF ~GetAgentOk(a) THEN
          /\ reqs' = Append(reqs, Req("rest", HTTP, a, p, FALSE, "done", "agent not found"))
          /\ UNCHANGED locks
       ELSE IF p = "" THEN
          /\ reqs' = Append(reqs, Req("rest", HTTP, a, p, FALSE, "done", "prompt field required"))
          /\ UNCHANGED locks
       ELSE
          /\ locks' = GetLock(a)
          /\ reqs' = Append(reqs, Req("rest", HTTP, a, p, GetAgentAttached(a), "lock", ""))
    /\ UNCHANGED <<registry, holder, trace, outq>>

(* ------------------------------------------------------------------ *)
(* handleBinaryMessage, case BinaryFileUpload: the goroutine is        *)
(* started for every well-formed envelope.                             *)
(* ------------------------------------------------------------------ *)
StartUpload(c, a) ==
    /\ Len(reqs) < MaxReq
    /\ locks' = GetLock(a)
    /\ reqs' = Append(reqs, Req("upload", c, a, "", FALSE, "lock", ""))

handleBinaryMessageFileUpload(c, a) ==
    /\ UNCHANGED <<subVars, lifeVars, ctrlVars, files>>
    /\ StartUpload(c, a)
    /\ UNCHANGED <<registry, holder, trace, outq>>

(* handleBinaryFileUpload up to the call of PasteBytes, and PasteBytes  *)
(* up to its first multiplexer command.                                 *)
maxFileUploadBytes == 8 * 1024 * 1024

(* The sizes of the uploaded file: empty, the largest allowed, one more. *)
UploadSizes == {0, maxFileUploadBytes, maxFileUploadBytes + 1}

(* if len(fileBytes) > maxFileUploadBytes *)
UploadTooLargeFromLimit(size) == size >= maxFileUploadBytes

UploadTooLarge(size) == size > maxFileUploadBytes

(* handleBinaryFileUpload on a payload that parses or not, with a file  *)
(* of the given size, a save and a temporary buffer file that succeed   *)
(* or not. An empty file is pasted inline and PasteBytes returns at     *)
(* once.                                                                *)
UploadPrepareOf(t, parseOk, size, saveOk, tmpOk) ==
    /\ reqs[t].pc = "upload"
    /\ IF ~parseOk THEN Finish(t, "invalid file payload") /\ UNCHANGED files
       ELSE IF UploadTooLarge(size) THEN Finish(t, "too large") /\ UNCHANGED files
       ELSE IF ~GetAgentOk(reqs[t].agent) THEN Finish(t, "agent not found") /\ UNCHANGED files
       ELSE IF ~saveOk THEN Finish(t, "save uploaded file") /\ UNCHANGED files
       ELSE /\ files' = Append(files, [req |-> t, size |-> size])
            /\ IF size = 0 THEN Finish(t, "")
               ELSE IF ~tmpOk THEN Finish(t, "paste into tmux")
               ELSE /\ reqs' = [reqs EXCEPT ![t].pc = "loadw"]
                    /\ UNCHANGED <<holder, outq>>
    /\ UNCHANGED <<registry, locks, trace>>
    /\ UNCHANGED <<subVars, lifeVars, ctrlVars>>

UploadPrepare(t) ==
    \E parseOk, saveOk, tmpOk \in BOOLEAN, size \in UploadSizes :
       UploadPrepareOf(t, parseOk, size, saveOk, tmpOk)

(* ControlMode.LoadBufferFromFile: load-buffer -w, plain on unknown flag *)
UploadLoadW(t) ==
    /\ UNCHANGED <<subVars, lifeVars, ctrlVars, files>>
    /\ reqs[t].pc = "loadw"
    /\ \E r \in {"ok", "unknown flag -w", "error"} :
          /\ trace' = Submit(Cmd(t, "load-buffer -w", "", "", r = "ok"))
          /\ IF r = "ok"
             THEN /\ reqs' = [reqs EXCEPT ![t].pc = "paste"]
                  /\ UNCHANGED <<holder, outq>>
             ELSE IF r = "unknown flag -w"
             THEN /\ reqs' = [reqs EXCEPT ![t].pc = "load"]
                  /\ UNCHANGED <<holder, outq>>
             ELSE Finish(t, "paste into tmux")
    /\ UNCHANGED <<registry, locks>>

UploadLoad(t) ==
    /\ UNCHANGED <<subVars, lifeVars, ctrlVars, files>>
    /\ reqs[t].pc = "load"
    /\ \E ok \in BOOLEAN :
          /\ trace' = Submit(Cmd(t, "load-buffer", "", "", ok))
          /\ IF ok
             THEN /\ reqs' = [reqs EXCEPT ![t].pc = "paste"]
                  /\ UNCHANGED <<holder, outq>>
             ELSE Finish(t, "paste into tmux")
    /\ UNCHANGED <<registry, locks>>

(* ControlMode.PasteBuffer *)
UploadPaste(t) ==
    /\ UNCHANGED <<subVars, lifeVars, ctrlVars, files>>
    /\ reqs[t].pc = "paste"
    /\ \E ok \in BOOLEAN :
          /\ trace' = Submit(Cmd(t, "paste-buffer -d", reqs[t].agent, "", ok))
          /\ Finish(t, IF ok THEN "" ELSE "paste into tmux")
    /\ UNCHANGED <<registry, locks>>

NextPrompt ==
    \/ \E c \in PromptClients, a \in Agents \cup {""}, p \in Prompts \cup {""} :
          handleSendPrompt(c, a, p)
    \/ \E a \in Agents, p \in Prompts \cup {""} : sendPrompt(a, p)
    \/ \E c \in PromptClients, a \in Agents : handleBinaryMessageFileUpload(c, a)
    \/ \E t \in ReqIds : LockAcquire(t)
    \/ \E t \in ReqIds : SessionLiteral(t)
    \/ \E t \in ReqIds : SessionEscape(t)
    \/ \E t \in ReqIds : SessionEnter(t)
    \/ \E t \in ReqIds : SessionShrink(t)
    \/ \E t \in ReqIds : SessionRestore(t)
    \/ \E t \in ReqIds : UploadPrepare(t)
    \/ \E t \in ReqIds : UploadLoadW(t)
    \/ \E t \in ReqIds : UploadLoad(t)
    \/ \E t \in ReqIds : UploadPaste(t)

SpecPrompt == Init /\ [][NextPrompt]_vars

(* The steps of the goroutines started for prompts and uploads. *)
PromptGoroutines ==
    \E t \in ReqIds :
       \/ LockAcquire(t)
       \/ SessionLiteral(t) \/ SessionEscape(t) \/ SessionEnter(t)
       \/ SessionShrink(t) \/ SessionRestore(t)
       \/ UploadPrepare(t) \/ UploadLoadW(t) \/ UploadLoad(t) \/ UploadPaste(t)

(* The send-prompt requests and uploads of a client for one agent,    *)
(* which queue for its lock.                                           *)
NextQueue ==
    \/ \E c \in PromptClients, p \in Prompts \cup {""} : handleSendPrompt(c, "a1", p)
    \/ \E c \in PromptClients : handleBinaryMessageFileUpload(c, "a1")
    \/ PromptGoroutines

(* Every multiplexer command returns and every goroutine that can take *)
(* a step is scheduled.                                                *)
SpecPromptLive == Init /\ [][NextQueue]_vars /\ WF_vars(PromptGoroutines)

(* ================================================================== *)
(* Output subscriptions: handleSubscribeOutput, handleUnsubscribeOutput *)
(* and the pipe-pane fan-out behind them                                *)
(* ================================================================== *)

(* makeBinaryFrame(msgType, agentName, payload); ch remembers the       *)
(* subscription the frame was produced for.                             *)
makeBinaryFrame(msgType, agentName, payload, ch) ==
    [kind |-> "bin", id |-> 0, type |-> msgType, ok |-> "absent", error |-> "",
     agent |-> agentName, payload |-> payload, ch |-> ch]

BinaryTerminalOutput == 1

BinaryTerminalSnapshot == 5

(* "\x1b[2J\x1b[H" *)
ClearScreen == <<27, 91, 50, 74, 27, 91, 72>>

(* Client.sendJSON / Client.SendBinary: enqueue for the write pump. *)
Enqueue(c, f) == [outq EXCEPT ![c] = Append(@, f)]

ChanIds == 1..Len(chans)

RECURSIVE SumOver(_, _)
SumOver(f, S) ==
    IF S = {} THEN 0
    ELSE LET x == CHOOSE y \in S : TRUE IN f[x] + SumOver(f, S \ {x})

(* Output requests read so far, over all connections. *)
SubReqCount == SumOver(nsub, Clients)

(* PipePaneManager.Subscribe(name): a fresh buffered channel is added   *)
(* to the subscriber set and the refcount incremented; pipe-pane is     *)
(* started when the refcount was 0.                                     *)
PipeSubscribe(c, a, id) ==
    /\ chans' = Append(chans, [agent |-> a, owner |-> c, id |-> id,
                               buf |-> <<>>, closed |-> FALSE])
    /\ subs' = [subs EXCEPT ![a] = @ \cup {Len(chans) + 1}]
    /\ refcount' = [refcount EXCEPT ![a] = @ + 1]
    /\ tap' = [tap EXCEPT ![a] = TRUE]

(* PipePaneManager.Unsubscribe(name, ch) for every channel in R: remove *)
(* it from the set, close it, decrement the refcount; pipe-pane is      *)
(* stopped when the refcount reaches 0.                                 *)
PipeUnsubscribe(R) ==
    /\ chans' = [i \in ChanIds |->
                    IF i \in R /\ i \in subs[chans[i].agent]
                    THEN [chans[i] EXCEPT !.closed = TRUE] ELSE chans[i]]
    /\ subs' = [a \in Agents |-> subs[a] \ R]
    /\ refcount' = [a \in Agents |-> refcount[a] - Cardinality(subs[a] \cap R)]
    /\ tap' = [a \in Agents |-> tap[a] /\ refcount[a] - Cardinality(subs[a] \cap R) > 0]

(* wantStream := req.Stream == nil || *req.Stream *)
wantStreamIgnored(stream) == TRUE

wantStream(stream) == stream = "absent" \/ stream = "true"

(* _, ok := c.server.registry.GetAgent(req.Agent); if !ok *)
SubscribeAgentMissingSkipped(a) == FALSE

SubscribeAgentMissing(a) == ~GetAgentOk(a)

(* handleSubscribeOutput up to and including the ack. *)
handleSubscribeOutput(c, a, stream) ==
    /\ connected[c] /\ hpc[c].pc = "idle"
    /\ SubReqCount < MaxSubReq
    /\ nsub' = [nsub EXCEPT ![c] = @ + 1]
    /\ LET id == nsub[c] + 1 IN
       IF a = "" THEN
          /\ outq' = Enqueue(c, ErrorFrame(id, "agent field required"))
          /\ UNCHANGED <<outputSubs, hpc, chans, subs, refcount, tap, trace>>
       ELSE IF SubscribeAgentMissing(a) THEN
          /\ outq' = Enqueue(c, JsonFrame(id, "subscribe-output", "false", "agent not found"))
          /\ UNCHANGED <<outputSubs, hpc, chans, subs, refcount, tap, trace>>
       ELSE IF wantStream(stream) THEN
          \E started \in BOOLEAN :
             IF refcount[a] = 0 /\ ~started
             THEN \* pipeMgr.Subscribe returned an error
                  /\ outq' = Enqueue(c, JsonFrame(id, "subscribe-output", "false",
                                                  "pipe-pane failed"))
                  /\ UNCHANGED <<outputSubs, hpc, chans, subs, refcount, tap, trace>>
             ELSE /\ PipeSubscribe(c, a, id)
                  /\ outputSubs' = [outputSubs EXCEPT ![c][a] = Len(chans) + 1]
                  /\ outq' = Enqueue(c, JsonFrame(id, "subscribe-output", "true", ""))
                  /\ hpc' = [hpc EXCEPT ![c] =
                               [pc |-> "drain", agent |-> a, ch |-> Len(chans) + 1, id |-> id]]
                  /\ UNCHANGED trace
       ELSE
          \E captured \in BOOLEAN :
             /\ trace' = [trace EXCEPT ![a] =
                             Append(@, Cmd(0, "capture-pane -p -e -S -", a, "", captured))]
             /\ outq' = Enqueue(c, [JsonFrame(id, "subscribe-output", "true", "")
                                       EXCEPT !.payload = IF captured THEN "history" ELSE ""])
             /\ UNCHANGED <<outputSubs, hpc, chans, subs, refcount, tap>>
    /\ UNCHANGED <<registry, connected, forwarders, nchunks, promptVars, ctrlVars, lifeVars>>

(* The position of handleSubscribeOutput at which the forwarding        *)
(* goroutine is started: go func() follows SendBinary(0x05).            *)
ForwarderStartsEarly == "drain"

ForwarderStartsAt == "snapshot"

StartForwarder(c, at) ==
    IF ForwarderStartsAt = at
    THEN forwarders \cup {[client |-> c, agent |-> hpc[c].agent, ch |-> hpc[c].ch]}
    ELSE forwarders

(* handleSubscribeOutput: the drain loop and ForceRedraw. *)
SubscribeDrain(c) ==
    /\ hpc[c].pc = "drain"
    /\ chans' = [chans EXCEPT ![hpc[c].ch].buf = <<>>]
    /\ trace' = [trace EXCEPT ![hpc[c].agent] =
                    Append(@, Cmd(0, "ForceRedraw", hpc[c].agent, "", TRUE))]
    /\ hpc' = [hpc EXCEPT ![c].pc = "snapshot"]
    /\ forwarders' = StartForwarder(c, "drain")
    /\ UNCHANGED <<registry, outq, connected, outputSubs, nsub, subs, refcount, tap,
                   nchunks, promptVars, ctrlVars, lifeVars>>

(* handleSubscribeOutput: after the 200 ms pause, the 0x05 frame and    *)
(* the start of the forwarding goroutine.                               *)
SubscribeSnapshot(c) ==
    /\ hpc[c].pc = "snapshot"
    /\ outq' = Enqueue(c, makeBinaryFrame(BinaryTerminalSnapshot, hpc[c].agent,
                                          ClearScreen, hpc[c].ch))
    /\ forwarders' = StartForwarder(c, "snapshot")
    /\ hpc' = [hpc EXCEPT ![c] = Idle]
    /\ UNCHANGED <<registry, trace, connected, outputSubs, nsub, chans, subs, refcount,
                   tap, nchunks, promptVars, ctrlVars, lifeVars>>

(* The forwarding goroutine: one iteration of  for rawBytes := range ch *)
ForwardChunk(f) ==
    /\ f \in forwarders
    /\ chans[f.ch].buf # <<>>
    /\ outq' = Enqueue(f.client, makeBinaryFrame(BinaryTerminalOutput, f.agent,
                                                 Head(chans[f.ch].buf), f.ch))
    /\ chans' = [chans EXCEPT ![f.ch].buf = Tail(@)]
    /\ UNCHANGED <<registry, trace, connected, outputSubs, hpc, nsub, subs, refcount,
                   tap, forwarders, nchunks, promptVars, ctrlVars, lifeVars>>

(* The range loop ends when the channel is closed and empty. *)
ForwardExit(f) ==
    /\ f \in forwarders
    /\ chans[f.ch].buf = <<>> /\ chans[f.ch].closed
    /\ forwarders' = forwarders \ {f}
    /\ UNCHANGED <<registry, trace, outq, connected, outputSubs, hpc, nsub, chans, subs,
                   refcount, tap, nchunks, promptVars, ctrlVars, lifeVars>>

(* The non-blocking send of the fan-out: channel i takes the chunk when *)
(* its own buffer has room, otherwise the chunk is dropped for it.      *)
HasRoomInAll(i) == \A j \in subs[chans[i].agent] : Len(chans[j].buf) < ChanCap

HasRoom(i) == Len(chans[i].buf) < ChanCap

(* The chunk goes to the back of the channel's buffer. *)
PushFront(buf, chunk) == <<chunk>> \o buf

Push(buf, chunk) == Append(buf, chunk)

(* The pipe-pane reader of agent a reads one chunk and offers it to     *)
(* every registered channel without blocking; a full channel drops it.  *)
ReadChunk(a) ==
    /\ tap[a]
    /\ nchunks' = nchunks + 1
    /\ chans' = [i \in ChanIds |->
                    IF i \in subs[a] /\ HasRoom(i)
                    THEN [chans[i] EXCEPT !.buf = Push(@, nchunks + 1)]
                    ELSE chans[i]]
    /\ UNCHANGED <<registry, trace, outq, connected, outputSubs, hpc, nsub, subs,
                   refcount, tap, forwarders, promptVars, ctrlVars, lifeVars>>

PipeRead(a) == nchunks < MaxChunks /\ ReadChunk(a)

(* The same reader with room for enough chunks to fill a channel. *)
PipeReadMany(a) == nchunks < MaxFanChunks /\ ReadChunk(a)

(* if exists { delete(c.outputSubs, req.Agent) } *)
DeleteEntrySkipped(c, a) == outputSubs

DeleteEntry(c, a) == [outputSubs EXCEPT ![c][a] = 0]

handleUnsubscribeOutput(c, a) ==
    /\ connected[c] /\ hpc[c].pc = "idle"
    /\ SubReqCount < MaxSubReq
    /\ nsub' = [nsub EXCEPT ![c] = @ + 1]
    /\ LET id == nsub[c] + 1 IN
       IF a = "" THEN
          /\ outq' = Enqueue(c, ErrorFrame(id, "agent field required"))
          /\ UNCHANGED <<outputSubs, chans, subs, refcount, tap>>
       ELSE
          /\ IF outputSubs[c][a] # 0
             THEN /\ outputSubs' = DeleteEntry(c, a)
                  /\ PipeUnsubscribe({outputSubs[c][a]})
             ELSE UNCHANGED <<outputSubs, chans, subs, refcount, tap>>
          /\ outq' = Enqueue(c, JsonFrame(id, "unsubscribe-output", "true", ""))
    /\ UNCHANGED <<registry, trace, connected, hpc, forwarders, nchunks, promptVars, ctrlVars, lifeVars>>

(* ServeHTTP after ReadPump returned: Server.RemoveClient, Client.Close *)
RemoveClient(c) ==
    /\ connected[c] /\ hpc[c].pc = "idle" /\ apc[c].pc = "idle"
    /\ ~bcast.active
    /\ connected' = [connected EXCEPT ![c] = FALSE]
    /\ PipeUnsubscribe({outputSubs[c][a] : a \in Agents} \ {0})
    /\ outputSubs' = [outputSubs EXCEPT ![c] = [a \in Agents |-> 0]]
    /\ UNCHANGED <<registry, trace, outq, hpc, nsub, forwarders, nchunks, promptVars, ctrlVars, lifeVars>>

NextSub ==
    \/ \E c \in Clients, a \in SubAgents \cup {""}, stream \in StreamFlags :
          handleSubscribeOutput(c, a, stream)
    \/ \E c \in Clients : SubscribeDrain(c)
    \/ \E c \in Clients : SubscribeSnapshot(c)
    \/ \E c \in Clients, a \in SubAgents \cup {""} : handleUnsubscribeOutput(c, a)
    \/ \E c \in Clients : RemoveClient(c)
    \/ \E a \in SubAgents : PipeRead(a)
    \/ \E f \in forwarders : ForwardChunk(f)
    \/ \E f \in forwarders : ForwardExit(f)

SpecSub == Init /\ [][NextSub]_vars

(* The fan-out of one agent's output to streaming subscribers. *)
NextFan ==
    \/ \E c \in Clients : outputSubs[c]["a1"] = 0 /\ handleSubscribeOutput(c, "a1", "true")
    \/ \E c \in Clients : SubscribeDrain(c)
    \/ \E c \in Clients : SubscribeSnapshot(c)
    \/ \E c \in Clients : outputSubs[c]["a1"] # 0 /\ handleUnsubscribeOutput(c, "a1")
    \/ \E a \in SubAgents : PipeReadMany(a)
    \/ \E f \in forwarders : ForwardChunk(f)
    \/ \E f \in forwarders : ForwardExit(f)

SpecFan == Init /\ [][NextFan]_vars

(* ------------------------------------------------------------------ *)
(* handleBinaryMessage on the bytes of a frame                         *)
(* ------------------------------------------------------------------ *)

BinaryKeyboardInput == 2

BinaryResize == 3

BinaryFileUpload == 4

(* The agent names as bytes: "a1", "a3". *)
NameBytes == {<<97, 49>>, <<97, 51>>}

AgentName(bytes) == IF bytes = <<97, 49>> THEN "a1" ELSE IF bytes = <<97, 51>> THEN "a3" ELSE ""

(* The texts of a number in a resize payload:                          *)
(* "0", "1", "2", "-1", "x".                                           *)
NumberTexts == {<<48>>, <<49>>, <<50>>, <<45, 49>>, <<120>>}

(* Resize payloads "cols:rows" with cols of "1", "2", "-1", "x" and     *)
(* rows of "0", "1", "x", and two payloads without a colon.            *)
ResizePayloads ==
    {cols \o <<58>> \o rows :
        cols \in NumberTexts \ {<<48>>}, rows \in NumberTexts \ {<<50>>, <<45, 49>>}}
    \cup {<<>>, <<50>>}

(* The frames a client sends: resize frames for an agent; frames of    *)
(* every other type for an agent, 0x06 being no type at all; of each   *)
(* type, a frame without the 0x00 separator, one with an empty agent   *)
(* name and one of two bytes; and keyboard input with no payload.      *)
Frames ==
    {<<BinaryResize, 97, 49, 0>> \o payload : payload \in ResizePayloads}
    \cup {<<msgType>> \o name \o <<0, 120>> :
        msgType \in {BinaryTerminalOutput, BinaryKeyboardInput, BinaryFileUpload, 6},
        name \in NameBytes}
    \cup {<<msgType>> \o rest :
        msgType \in {BinaryKeyboardInput, BinaryResize, BinaryFileUpload, 6},
        rest \in {<<97, 49, 50, 58, 50>>, <<0, 50, 58, 50>>, <<97>>}}
    \cup {<<BinaryKeyboardInput, 97, 49, 0>>}

(* bytes.IndexByte, counting from 1; 0 when the byte does not occur. *)
RECURSIVE IndexByte(_, _)
IndexByte(bytes, b) ==
    IF bytes = <<>> THEN 0
    ELSE IF Head(bytes) = b THEN 1
    ELSE LET rest == IndexByte(Tail(bytes), b) IN IF rest = 0 THEN 0 ELSE rest + 1

(* if idx == 0 { "missing agent name" } *)
MissingAgentNameAccepted(idx) == FALSE

MissingAgentName(idx) == idx = 1

(* parseBinaryEnvelope *)
parseBinaryEnvelope(data) ==
    LET rest == Tail(data)
        idx == IndexByte(rest, 0)
        failed(err) == [msgType |-> 0, agentName |-> "", payload |-> <<>>, err |-> err]
    IN IF Len(data) < 3 THEN failed("frame too short")
       ELSE IF idx = 0 THEN failed("missing agent separator")
       ELSE IF MissingAgentName(idx) THEN failed("missing agent name")
       ELSE [msgType |-> data[1], agentName |-> AgentName(SubSeq(rest, 1, idx - 1)),
             payload |-> SubSeq(rest, idx + 1, Len(rest)), err |-> ""]

IsDigits(bytes) == bytes # <<>> /\ \A n \in 1..Len(bytes) : bytes[n] \in 48..57

RECURSIVE DigitsValue(_)
DigitsValue(bytes) ==
    IF bytes = <<>> THEN 0
    ELSE DigitsValue(SubSeq(bytes, 1, Len(bytes) - 1)) * 10 + (bytes[Len(bytes)] - 48)

(* strconv.Atoi: an optional sign and at least one digit. *)
Atoi(bytes) ==
    IF bytes # <<>> /\ Head(bytes) \in {43, 45}
    THEN IF IsDigits(Tail(bytes))
         THEN [ok |-> TRUE,
               val |-> IF Head(bytes) = 45 THEN 0 - DigitsValue(Tail(bytes))
                       ELSE DigitsValue(Tail(bytes))]
         ELSE [ok |-> FALSE, val |-> 0]
    ELSE IF IsDigits(bytes) THEN [ok |-> TRUE, val |-> DigitsValue(bytes)]
    ELSE [ok |-> FALSE, val |-> 0]

(* strings.SplitN(string(payload), ":", 2) *)
SplitColon(payload) ==
    LET idx == IndexByte(payload, 58)
    IN IF idx = 0 THEN <<payload>>
       ELSE <<SubSeq(payload, 1, idx - 1), SubSeq(payload, idx + 1, Len(payload))>>

(* if cols < 2 || rows < 1 *)
ResizeOutOfRangeFromOne(cols, rows) == cols < 1 \/ rows < 1

ResizeOutOfRange(cols, rows) == cols < 2 \/ rows < 1

(* ControlMode.ResizeWindow: resize-window -t target -x cols -y rows *)
ResizeWindow(target, cols, rows, ok) == Cmd(0, "resize-window", target, <<cols, rows>>, ok)

(* ControlMode.SendKeysBytes (nothing is sent for an empty payload) *)
SendKeysBytes(target, payload, ok) == Cmd(0, "send-keys -H", target, payload, ok)

(* A command of a handler that holds no lock, sent for agent a. *)
SubmitFor(a, c) == [trace EXCEPT ![a] = Append(@, c)]

(* handleBinaryMessage. The payload of an upload frame is left to the   *)
(* goroutine it starts: see UploadPrepare.                              *)
handleBinaryMessage(c, data) ==
    /\ connected[c]
    /\ SubReqCount < MaxFrames
    /\ nsub' = [nsub EXCEPT ![c] = @ + 1]
    /\ LET env == parseBinaryEnvelope(data)
           a == env.agentName
       IN
       IF env.err # ""
       THEN /\ outq' = Enqueue(c, ErrorFrame(0, "invalid binary message: " \o env.err))
            /\ UNCHANGED <<trace, locks, reqs>>
       ELSE IF env.msgType = BinaryKeyboardInput
       THEN IF env.payload = <<>>
            THEN UNCHANGED <<trace, outq, locks, reqs>>
            ELSE \E ok \in BOOLEAN :
                    /\ trace' = SubmitFor(a, SendKeysBytes(a, env.payload, ok))
                    /\ outq' = IF ok THEN outq ELSE Enqueue(c, ErrorFrame(0, "keyboard input"))
                    /\ UNCHANGED <<locks, reqs>>
       ELSE IF env.msgType = BinaryResize
       THEN LET parts == SplitColon(env.payload) IN
            IF Len(parts) # 2
            THEN /\ outq' = Enqueue(c, ErrorFrame(0, "invalid resize payload: expected cols:rows"))
                 /\ UNCHANGED <<trace, locks, reqs>>
            ELSE IF ~Atoi(parts[1]).ok \/ ~Atoi(parts[2]).ok
            THEN /\ outq' = Enqueue(c, ErrorFrame(0, "invalid resize payload: non-numeric cols/rows"))
                 /\ UNCHANGED <<trace, locks, reqs>>
            ELSE IF ResizeOutOfRange(Atoi(parts[1]).val, Atoi(parts[2]).val)
            THEN /\ outq' = Enqueue(c, ErrorFrame(0, "invalid resize payload: out of range"))
                 /\ UNCHANGED <<trace, locks, reqs>>
            ELSE \E ok \in BOOLEAN :
                    /\ trace' = SubmitFor(a, ResizeWindow(a, Atoi(parts[1]).val,
                                                          Atoi(parts[2]).val, ok))
                    /\ outq' = IF ok THEN outq ELSE Enqueue(c, ErrorFrame(0, "resize"))
                    /\ UNCHANGED <<locks, reqs>>
       ELSE IF env.msgType = BinaryFileUpload
       THEN /\ StartUpload(c, a)
            /\ UNCHANGED <<trace, outq>>
       ELSE /\ outq' = Enqueue(c, ErrorFrame(0, "unknown binary message type"))
            /\ UNCHANGED <<trace, locks, reqs>>
    /\ UNCHANGED <<registry, holder, files, connected, outputSubs, hpc, chans, subs, refcount,
                   tap, forwarders, nchunks, lifeVars, ctrlVars>>

(* Binary frames from a client and the uploads they start. *)
NextBin ==
    \/ \E c \in PromptClients, data \in Frames : handleBinaryMessage(c, data)
    \/ \E t \in ReqIds : LockAcquire(t)
    \/ \E t \in ReqIds : UploadPrepare(t)
    \/ \E t \in ReqIds : UploadLoadW(t)
    \/ \E t \in ReqIds : UploadLoad(t)
    \/ \E t \in ReqIds : UploadPaste(t)

SpecBin == Init /\ [][NextBin]_vars

(* The well-formed keyboard frames for agent a1 among the frames a     *)
(* client sends.                                                       *)
KeyboardFrames ==
    {data \in Frames : /\ data[1] = BinaryKeyboardInput
                       /\ parseBinaryEnvelope(data).err = ""
                       /\ parseBinaryEnvelope(data).agentName = "a1"}

(* Keyboard input arriving while prompts are delivered: the read pump   *)
(* starts the goroutine of a send-prompt and goes on to the next frame. *)
NextInject ==
    \/ \E c \in PromptClients, p \in Prompts : handleSendPrompt(c, "a1", p)
    \/ \E c \in PromptClients, data \in KeyboardFrames : handleBinaryMessage(c, data)
    \/ \E t \in ReqIds : LockAcquire(t)
    \/ \E t \in ReqIds : SessionLiteral(t)
    \/ \E t \in ReqIds : SessionEscape(t)
    \/ \E t \in ReqIds : SessionEnter(t)
    \/ \E t \in ReqIds : SessionShrink(t)
    \/ \E t \in ReqIds : SessionRestore(t)

SpecInject == Init /\ [][NextInject]_vars

(* ================================================================== *)
(* Agent lifecycle: subscribe-agents / unsubscribe-agents, the         *)
(* registry scan and the broadcast of its events                       *)
(* ================================================================== *)

(* The part of the server state the agent handlers can reach: the      *)
(* client set, Client.agentSub and Client.outputSubs of every client.  *)
ServerState ==
    [clients |-> {c \in Clients : connected[c]},
     agentSub |-> agentSub,
     outputSubs |-> outputSubs]

(* handleSubscribeAgents: c.agentSub = true *)
SetAgentSubSkipped(s, c) == s

SetAgentSub(s, c) == [s EXCEPT !.agentSub[c] = TRUE]

(* handleUnsubscribeAgents: c.agentSub = false *)
ClearAgentSubSkipped(s, c) == s

ClearAgentSub(s, c) == [s EXCEPT !.agentSub[c] = FALSE]

StoreServerState(s) ==
    /\ connected' = [c \in Clients |-> c \in s.clients]
    /\ agentSub' = s.agentSub
    /\ outputSubs' = s.outputSubs

(* handleSubscribeAgents up to the write of the flag. *)
handleSubscribeAgents(c) ==
    /\ connected[c] /\ hpc[c].pc = "idle" /\ apc[c].pc = "idle"
    /\ SubReqCount < MaxLifeReq
    /\ nsub' = [nsub EXCEPT ![c] = @ + 1]
    /\ StoreServerState(SetAgentSub(ServerState, c))
    /\ apc' = [apc EXCEPT ![c] = [pc |-> "sub", id |-> nsub[c] + 1]]
    /\ UNCHANGED <<registry, trace, outq, promptVars, ctrlVars, hpc, chans, subs, refcount, tap,
                   forwarders, nchunks, sessions, reloaded, events, nevents, bcast>>

(* handleSubscribeAgents: registry.GetAgents() and the ack; ch notes   *)
(* how many events the registry had emitted when the list was read.    *)
SubscribeAgentsAck(c) ==
    /\ apc[c].pc = "sub"
    /\ outq' = Enqueue(c, [JsonFrame(apc[c].id, "subscribe-agents", "true", "")
                              EXCEPT !.payload = registry, !.ch = nevents])
    /\ apc' = [apc EXCEPT ![c] = [pc |-> "idle", id |-> 0]]
    /\ UNCHANGED <<registry, trace, promptVars, ctrlVars, subVars, agentSub, sessions, reloaded,
                   events, nevents, bcast>>

(* handleUnsubscribeAgents up to the write of the flag; a client whose *)
(* flag is cleared has not been subscribed throughout the broadcast in *)
(* progress.                                                           *)
handleUnsubscribeAgents(c) ==
    /\ connected[c] /\ hpc[c].pc = "idle" /\ apc[c].pc = "idle"
    /\ SubReqCount < MaxLifeReq
    /\ nsub' = [nsub EXCEPT ![c] = @ + 1]
    /\ StoreServerState(ClearAgentSub(ServerState, c))
    /\ apc' = [apc EXCEPT ![c] = [pc |-> "unsub", id |-> nsub[c] + 1]]
    /\ bcast' = [bcast EXCEPT !.steady = @ \ {c}]
    /\ UNCHANGED <<registry, trace, outq, promptVars, ctrlVars, hpc, chans, subs, refcount, tap,
                   forwarders, nchunks, sessions, reloaded, events, nevents>>

UnsubscribeAgentsAck(c) ==
    /\ apc[c].pc = "unsub"
    /\ outq' = Enqueue(c, JsonFrame(apc[c].id, "unsubscribe-agents", "true", ""))
    /\ apc' = [apc EXCEPT ![c] = [pc |-> "idle", id |-> 0]]
    /\ UNCHANGED <<registry, trace, promptVars, ctrlVars, subVars, agentSub, sessions, reloaded,
                   events, nevents, bcast>>

(* The agent process of a session exits (or its session is killed). *)
EnvDie(a) ==
    /\ sessions[a] # "absent"
    /\ sessions' = [sessions EXCEPT ![a] = "absent"]
    /\ UNCHANGED <<registry, trace, outq, promptVars, ctrlVars, subVars, agentSub, apc, reloaded,
                   events, nevents, bcast>>

(* An agent process starts in a session; when the registry still knows *)
(* the previous agent of that name this completes a hot reload.        *)
EnvStart(a, att) ==
    /\ sessions[a] = "absent"
    /\ sessions' = [sessions EXCEPT ![a] = att]
    /\ reloaded' = [reloaded EXCEPT ![a] = registry[a] # "absent"]
    /\ UNCHANGED <<registry, trace, outq, promptVars, ctrlVars, subVars, agentSub, apc,
                   events, nevents, bcast>>

(* A human attaches to or detaches from the session. *)
EnvAttach(a) ==
    /\ sessions[a] # "absent"
    /\ sessions' = [sessions EXCEPT ![a] = IF @ = "attached" THEN "detached" ELSE "attached"]
    /\ UNCHANGED <<registry, trace, outq, promptVars, ctrlVars, subVars, agentSub, apc, reloaded,
                   events, nevents, bcast>>

(* The orders in which a scan may walk the names. *)
ScanOrders == {<<"a1", "a3">>, <<"a3", "a1">>}

Event(type, name, agent) == [type |-> type, name |-> name, agent |-> agent, n |-> 0]

(* removed = known \ new *)
RemovedNames(K, N, order) == SelectSeq(order, LAMBDA a : K[a] # "absent" /\ N[a] = "absent")

(* added = new \ known *)
AddedNames(K, N, order) == SelectSeq(order, LAMBDA a : K[a] = "absent" /\ N[a] # "absent")

(* updated = intersection where attached differs *)
UpdatedIgnoresAttached(K, N, a) == FALSE

Updated(K, N, a) == K[a] # "absent" /\ N[a] # "absent" /\ K[a] # N[a]

UpdatedNames(K, N, order) == SelectSeq(order, LAMBDA a : Updated(K, N, a))

(* The diff of a scan, in emission order: removed, added, updated. *)
Diff(K, N, order) ==
    [i \in 1..Len(RemovedNames(K, N, order)) |->
        Event("removed", RemovedNames(K, N, order)[i], K[RemovedNames(K, N, order)[i]])]
    \o [i \in 1..Len(AddedNames(K, N, order)) |->
        Event("added", AddedNames(K, N, order)[i], N[AddedNames(K, N, order)[i]])]
    \o [i \in 1..Len(UpdatedNames(K, N, order)) |->
        Event("updated", UpdatedNames(K, N, order)[i], N[UpdatedNames(K, N, order)[i]])]

Numbered(evs, from) == [i \in 1..Len(evs) |-> [evs[i] EXCEPT !.n = from + i]]

(* Registry.scan: the detector output replaces the known set and the   *)
(* diff events are emitted.                                            *)
scan(order) ==
    /\ nevents + Len(Diff(registry, sessions, order)) <= MaxEvents
    /\ events' = events \o Numbered(Diff(registry, sessions, order), nevents)
    /\ nevents' = nevents + Len(Diff(registry, sessions, order))
    /\ registry' = sessions
    /\ reloaded' = [a \in Agents |-> FALSE]
    /\ UNCHANGED <<trace, outq, promptVars, ctrlVars, subVars, agentSub, apc, sessions, bcast>>

(* ws.MakeAgentEvent: agent-removed carries the name only. *)
MakeAgentEvent(ev) ==
    [JsonFrame(0, "agent-" \o ev.type, "absent", "")
        EXCEPT !.agent = ev.name,
               !.payload = IF ev.type = "removed" THEN "" ELSE ev.agent,
               !.ch = ev.n]

(* forwardEvents: the next event is taken from the channel, and        *)
(* BroadcastToAgentSubscribers locks the client set.                   *)
BroadcastStart ==
    /\ ~bcast.active /\ events # <<>>
    /\ events' = Tail(events)
    /\ bcast' = [active |-> TRUE, ev |-> Head(events),
                 todo |-> {c \in Clients : connected[c]},
                 steady |-> {c \in Clients : connected[c] /\ agentSub[c]},
                 sending |-> ""]
    /\ UNCHANGED <<registry, trace, outq, promptVars, ctrlVars, subVars, agentSub, apc, sessions,
                   reloaded, nevents>>

(* subscribed := client.agentSub *)
SubscribedAlways(c) == TRUE

Subscribed(c) == agentSub[c]

(* One iteration of  for client := range s.clients, up to the release *)
(* of client.mu: the flag is read; a client whose flag is clear is     *)
(* passed.                                                             *)
BroadcastStep(c) ==
    /\ bcast.active /\ c \in bcast.todo /\ bcast.sending = ""
    /\ bcast' = IF Subscribed(c) THEN [bcast EXCEPT !.sending = c]
                ELSE [bcast EXCEPT !.todo = @ \ {c}]
    /\ UNCHANGED <<registry, trace, outq, promptVars, ctrlVars, subVars, agentSub, apc,
                   sessions, reloaded, events, nevents>>

(* if subscribed { client.SendText(msg) }, with client.mu released *)
BroadcastSend ==
    /\ bcast.active /\ bcast.sending # ""
    /\ outq' = Enqueue(bcast.sending, MakeAgentEvent(bcast.ev))
    /\ bcast' = [bcast EXCEPT !.todo = @ \ {bcast.sending}, !.sending = ""]
    /\ UNCHANGED <<registry, trace, promptVars, ctrlVars, subVars, agentSub, apc, sessions,
                   reloaded, events, nevents>>

(* The loop is over; the deferred s.mu.Unlock() runs. *)
BroadcastEnd ==
    /\ bcast.active /\ bcast.todo = {}
    /\ bcast' = NoBroadcast
    /\ UNCHANGED <<registry, trace, outq, promptVars, ctrlVars, subVars, agentSub, apc, sessions,
                   reloaded, events, nevents>>

(* Clients, the broadcast and the registry; of the changes a scan can  *)
(* see the sessions here only attach and detach.                      *)
NextLife ==
    \/ \E c \in Clients : handleSubscribeAgents(c)
    \/ \E c \in Clients : SubscribeAgentsAck(c)
    \/ \E c \in Clients : handleUnsubscribeAgents(c)
    \/ \E c \in Clients : UnsubscribeAgentsAck(c)
    \/ \E c \in Clients : RemoveClient(c)
    \/ \E a \in Agents : EnvAttach(a)
    \/ \E order \in ScanOrders : scan(order)
    \/ BroadcastStart
    \/ \E c \in Clients : BroadcastStep(c)
    \/ BroadcastSend
    \/ BroadcastEnd

SpecLife == Init /\ [][NextLife]_vars

(* An agent with output subscribers goes away: the registry sees it,   *)
(* and forwardEvents broadcasts the removed event.                     *)
NextGone ==
    \/ \E c \in Clients : outputSubs[c]["a1"] = 0 /\ handleSubscribeOutput(c, "a1", "true")
    \/ \E c \in Clients : SubscribeDrain(c)
    \/ \E c \in Clients : SubscribeSnapshot(c)
    \/ \E a \in SubAgents : PipeRead(a)
    \/ \E f \in forwarders : ForwardChunk(f)
    \/ \E c \in Clients : handleSubscribeAgents(c)
    \/ \E c \in Clients : SubscribeAgentsAck(c)
    \/ \E a \in Agents : EnvDie(a)
    \/ \E order \in ScanOrders : scan(order)
    \/ BroadcastStart
    \/ \E c \in Clients : BroadcastStep(c)
    \/ BroadcastSend
    \/ BroadcastEnd

SpecGone == Init /\ [][NextGone]_vars

(* The registry alone: the sessions change and the scans follow. *)
NextScan ==
    \/ \E a \in Agents : EnvDie(a)
    \/ \E a \in Agents, att \in {"attached", "detached"} : EnvStart(a, att)
    \/ \E a \in Agents : EnvAttach(a)
    \/ \E order \in ScanOrders : scan(order)

SpecScan == Init /\ [][NextScan]_vars

(* ================================================================== *)
(* The control connection: execute, the multiplexer and the parser     *)
(* ================================================================== *)
otherVars == <<registry, trace, outq, promptVars, subVars, lifeVars, callVars>>

(* execute serialises access with a mutex. *)
CommandMutexIgnored == TRUE

CommandMutexFree == cmu = ""

(* execute(cmd): lock the mutex and write "cmd\n". *)
Execute(k) ==
    /\ cpc[k].pc = "idle" /\ CommandMutexFree
    /\ ~conn.dead
    /\ Len(cmds) + conn.refused < MaxCmds
    /\ cmu' = k
    /\ cmds' = Append(cmds, [caller |-> k, result |-> "pending", got |-> 0])
    /\ cpc' = [cpc EXCEPT ![k] = [pc |-> "wait", n |-> Len(cmds) + 1]]
    /\ UNCHANGED <<tmux, inbound, parser, discard, reply, conn, stop, web, otherVars>>

(* The caller leaves execute: the result is returned, the mutex freed. *)
Return(k, result, got) ==
    /\ cmds' = [cmds EXCEPT ![cpc[k].n].result = result, ![cpc[k].n].got = got]
    /\ cpc' = [cpc EXCEPT ![k] = [pc |-> "idle", n |-> 0]]
    /\ cmu' = IF cmu = k THEN "" ELSE cmu

(* execute: the awaited begin/end pair has been published. *)
ExecuteReceive(k) ==
    /\ cpc[k].pc = "wait" /\ reply # <<>>
    /\ Return(k, reply[1].result, reply[1].n)
    /\ reply' = <<>>
    /\ UNCHANGED <<tmux, inbound, parser, discard, conn, stop, web, otherVars>>

(* The pending command number is recorded when the deadline passes. *)
RecordPendingSkipped(n) == discard

RecordPending(n) == discard \cup {n}

(* execute: the per-command deadline passes before a reply arrived. *)
ExecuteTimeout(k) ==
    /\ cpc[k].pc = "wait" /\ reply = <<>>
    /\ Return(k, "timeout", 0)
    /\ discard' = RecordPending(cpc[k].n)
    /\ UNCHANGED <<tmux, inbound, parser, reply, conn, stop, web, otherVars>>

(* The multiplexer answers the commands in the order written:          *)
(* %begin n, then %end n or %error n.                                  *)
TmuxBegin ==
    /\ conn.child = "running"
    /\ tmux.block = 0 /\ tmux.done < Len(cmds)
    /\ tmux' = [tmux EXCEPT !.block = tmux.done + 1]
    /\ inbound' = Append(inbound, [kind |-> "begin", n |-> tmux.done + 1])
    /\ UNCHANGED <<cmu, cpc, cmds, parser, discard, reply, conn, stop, web, otherVars>>

TmuxEnd(kind) ==
    /\ conn.child = "running"
    /\ tmux.block # 0
    /\ tmux' = [done |-> tmux.block, block |-> 0]
    /\ inbound' = Append(inbound, [kind |-> kind, n |-> tmux.block])
    /\ UNCHANGED <<cmu, cpc, cmds, parser, discard, reply, conn, stop, web, otherVars>>

(* The parser drops the block of a command that has timed out. *)
DiscardedNever(n) == FALSE

Discarded(n) == n \in discard

(* The parser reads one line: a begin marker opens the block; an end   *)
(* or error marker publishes the block to the awaiting caller unless   *)
(* the block is to be discarded.                                       *)
ParserRead ==
    /\ inbound # <<>>
    /\ (Head(inbound).kind # "begin" /\ ~Discarded(Head(inbound).n)) => reply = <<>>
    /\ inbound' = Tail(inbound)
    /\ LET line == Head(inbound) IN
       IF line.kind = "begin"
       THEN UNCHANGED <<parser, discard, reply>>
       ELSE /\ parser' = [parser EXCEPT !.done = line.n]
            /\ IF Discarded(line.n)
               THEN /\ discard' = discard \ {line.n}
                    /\ UNCHANGED reply
               ELSE /\ reply' = <<[n |-> line.n,
                                    result |-> IF line.kind = "end" THEN "ok" ELSE "error"]>>
                    /\ UNCHANGED discard
    /\ UNCHANGED <<cmu, cpc, cmds, tmux, conn, stop, web, otherVars>>

(* The multiplexer child process exits. *)
ChildExit ==
    /\ conn.child = "running"
    /\ conn' = [conn EXCEPT !.child = "exited"]
    /\ UNCHANGED <<cmu, cpc, cmds, tmux, inbound, parser, discard, reply, stop, web, otherVars>>

(* The commands that fail when the end of the child's output is seen. *)
PendingAtExitNone(i) == FALSE

PendingAtExit(i) == cmds[i].result = "pending"

(* The parser reaches the end of the child's output: every pending     *)
(* command fails with the fatal error kind, the notification channel   *)
(* is closed, the connection stays unusable.                           *)
ParserEOF ==
    /\ conn.child = "exited" /\ ~conn.dead
    /\ inbound = <<>> /\ reply = <<>>
    /\ conn' = [conn EXCEPT !.dead = TRUE, !.notif = "closed"]
    /\ cmds' = [i \in DOMAIN cmds |->
                   IF PendingAtExit(i) THEN [cmds[i] EXCEPT !.result = "fatal"] ELSE cmds[i]]
    /\ cpc' = [k \in Callers |->
                  IF cpc[k].pc = "wait" /\ PendingAtExit(cpc[k].n)
                  THEN [pc |-> "idle", n |-> 0] ELSE cpc[k]]
    /\ cmu' = IF cmu # "" /\ cpc[cmu].pc = "wait" /\ PendingAtExit(cpc[cmu].n)
              THEN "" ELSE cmu
    /\ UNCHANGED <<tmux, inbound, parser, discard, reply, stop, web, otherVars>>

(* execute on a connection in the fatal state fails at once; nothing   *)
(* is written.                                                         *)
ExecuteRefused(k) ==
    /\ cpc[k].pc = "idle" /\ conn.dead
    /\ Len(cmds) + conn.refused < MaxCmds
    /\ conn' = [conn EXCEPT !.refused = @ + 1]
    /\ UNCHANGED <<cmu, cpc, cmds, tmux, inbound, parser, discard, reply, stop, web, otherVars>>

NextCtrl ==
    \/ \E k \in Callers : Execute(k)
    \/ \E k \in Callers : ExecuteReceive(k)
    \/ \E k \in Callers : ExecuteTimeout(k)
    \/ TmuxBegin
    \/ \E kind \in {"end", "error"} : TmuxEnd(kind)
    \/ ParserRead
    \/ ChildExit
    \/ ParserEOF
    \/ \E k \in Callers : ExecuteRefused(k)

SpecCtrl == Init /\ [][NextCtrl]_vars

(* ================================================================== *)
(* Properties of the prompt path                                       *)
(* ================================================================== *)
Holding(t) == reqs[t].pc \in HoldingPcs

IsPrompt(t) == reqs[t].kind \in {"ws", "rest"}

(* The commands request t has submitted, in order. *)
TraceOf(t) ==
    IF reqs[t].agent \in Agents
    THEN SelectSeq(trace[reqs[t].agent], LAMBDA c : c.req = t)
    ELSE <<>>

IsEnter(c) == c.cmd = "send-keys" /\ c.arg = "Enter"

IsLiteral(c) == c.cmd = "send-keys -l"

IsResize(c) == c.cmd = "resize-pane -y"

IsPaste(c) == c.cmd \in {"load-buffer -w", "load-buffer", "paste-buffer -d"}

Enters(t) == SelectSeq(TraceOf(t), IsEnter)

Resizes(t) == SelectSeq(TraceOf(t), IsResize)

EnterFailed == "failed to send Enter after 3 attempts"

(* C1: for every agent at most one lock-holding operation (WebSocket    *)
(* prompt, REST prompt, file upload) is in progress, the commands of    *)
(* two operations on the same agent never interleave, and no upload     *)
(* paste command falls between the literal send and the last Enter of   *)
(* a prompt for the same agent.                                         *)
C1_SerialisedPerAgent ==
    \A a \in Agents :
       /\ Cardinality({t \in ReqIds : reqs[t].agent = a /\ Holding(t)}) <= 1
       /\ \A t \in ReqIds : (reqs[t].agent = a /\ Holding(t)) => holder[a] = t
       /\ \A k \in DOMAIN trace[a] :
             (k > 1 /\ trace[a][k].req # trace[a][k - 1].req)
                => \A i \in 1..(k - 1) : trace[a][i].req # trace[a][k].req
       /\ \A j \in DOMAIN trace[a] :
             IsPaste(trace[a][j]) =>
                ~\E i \in 1..(j - 1), k \in (j + 1)..Len(trace[a]) :
                    /\ IsLiteral(trace[a][i]) /\ IsEnter(trace[a][k])
                    /\ trace[a][i].req = trace[a][k].req

(* A prompt is between its Escape and its Enter while an upload and a   *)
(* second prompt for the same agent wait for the lock.                  *)
C1_Witness ==
    \E t1, t2 \in ReqIds :
       /\ reqs[t1].agent = reqs[t2].agent
       /\ IsPrompt(t1) /\ reqs[t1].pc = "enter"
       /\ reqs[t2].kind \in {"upload", "ws", "rest"} /\ reqs[t2].pc = "lock"

(* C2: two valid send-prompt requests of one client for the same agent  *)
(* submit their literal send-keys in the order in which they were read. *)
C2_PromptsInRequestOrder ==
    \A t1, t2 \in ReqIds :
       (/\ t1 < t2
        /\ reqs[t1].kind = "ws" /\ reqs[t2].kind = "ws"
        /\ reqs[t1].client = reqs[t2].client
        /\ reqs[t1].agent = reqs[t2].agent
        /\ reqs[t1].prompt # "" /\ reqs[t2].prompt # ""
        /\ \E c \in {TraceOf(t2)[i] : i \in DOMAIN TraceOf(t2)} : IsLiteral(c))
          => \E i, j \in DOMAIN trace[reqs[t1].agent] :
                /\ i < j
                /\ trace[reqs[t1].agent][i].req = t1 /\ IsLiteral(trace[reqs[t1].agent][i])
                /\ trace[reqs[t1].agent][j].req = t2 /\ IsLiteral(trace[reqs[t1].agent][j])

(* C3: a successful nudge has submitted exactly: one literal send-keys  *)
(* with the prompt, one Escape, one to three Enter of which only the    *)
(* last succeeded, and then resize-pane -1, +1 iff the agent was        *)
(* unattached.                                                          *)
C3_SuccessfulNudgeTrace ==
    \A t \in ReqIds :
       (IsPrompt(t) /\ reqs[t].pc = "done" /\ reqs[t].result = "ok") =>
          LET s == TraceOf(t)
              a == reqs[t].agent
              w == IF reqs[t].attached THEN 0 ELSE 2
              e == Len(s) - 2 - w
          IN /\ e \in 1..3
             /\ s[1] = SendKeysLiteral(t, a, reqs[t].prompt, TRUE)
             /\ s[2] = SendKeysRaw(t, a, "Escape", TRUE)
             /\ \A i \in 3..(2 + e) :
                   /\ IsEnter(s[i]) /\ s[i].target = a
                   /\ s[i].ok <=> (i = 2 + e)
             /\ w = 2 =>
                   /\ IsResize(s[Len(s) - 1]) /\ s[Len(s) - 1].arg = "-1"
                   /\ s[Len(s) - 1].target = a
                   /\ IsResize(s[Len(s)]) /\ s[Len(s)].arg = "+1"
                   /\ s[Len(s)].target = a

(* A nudge of an unattached agent succeeded on its third Enter and has  *)
(* submitted its seven commands.                                        *)
C3_Witness ==
    \E t \in ReqIds :
       /\ IsPrompt(t) /\ reqs[t].result = "ok" /\ ~reqs[t].attached
       /\ Len(TraceOf(t)) = 7

(* C4: a nudge submits at most 3 Enter; every Enter but the last one    *)
(* failed; and when all 3 failed the nudge returns the Enter error and  *)
(* has submitted no resize-pane.                                        *)
C4_EnterRetryBound ==
    \A t \in ReqIds :
       IsPrompt(t) =>
          LET e == Enters(t) IN
          /\ Len(e) <= 3
          /\ \A i \in 1..(Len(e) - 1) : ~e[i].ok
          /\ (Len(e) = 3 /\ ~e[3].ok) =>
                /\ reqs[t].pc = "done"
                /\ reqs[t].result = EnterFailed
                /\ Resizes(t) = <<>>
          /\ reqs[t].result = EnterFailed =>
                /\ Len(e) = 3 /\ \A i \in 1..3 : ~e[i].ok
                /\ Resizes(t) = <<>>

(* A nudge of an unattached agent whose three Enter attempts failed. *)
C4_Witness ==
    \E t \in ReqIds :
       /\ IsPrompt(t) /\ ~reqs[t].attached
       /\ reqs[t].result = EnterFailed /\ Len(Enters(t)) = 3

WellFormed(t) == reqs[t].agent # "" /\ reqs[t].prompt # ""

Failed(t) == IsPrompt(t) /\ reqs[t].pc = "done" /\ reqs[t].result # "ok"

(* C5 as stated: a failed send-prompt/nudge is of one of three kinds. *)
C5_ThreeFailureKinds ==
    \A t \in ReqIds :
       (Failed(t) /\ WellFormed(t)) =>
          reqs[t].result \in {"agent not found", "send literal", EnterFailed}

(* C5 amended: a failed send-prompt/nudge with both fields present is   *)
(* of exactly one of four kinds: agent-not-found (pre-check, nothing    *)
(* submitted), send-literal-failed, send-escape-failed or               *)
(* send-enter-failed-after-retries, and the kind names the command      *)
(* that failed last.                                                    *)
C5_FourFailureKinds ==
    \A t \in ReqIds :
       (Failed(t) /\ WellFormed(t)) =>
          LET s == TraceOf(t) IN
          /\ reqs[t].result \in {"agent not found", "send literal", "send Escape", EnterFailed}
          /\ reqs[t].result = "agent not found" <=> s = <<>>
          /\ reqs[t].result = "send literal" <=>
                (Len(s) = 1 /\ IsLiteral(s[1]) /\ ~s[1].ok)
          /\ reqs[t].result = "send Escape" <=>
                (Len(s) = 2 /\ s[2].arg = "Escape" /\ ~s[2].ok)
          /\ reqs[t].result = EnterFailed <=>
                (Len(s) = 5 /\ IsEnter(s[5]) /\ ~s[5].ok)

(* A nudge failed because its Escape was rejected. *)
C5_Witness ==
    \E t \in ReqIds : Failed(t) /\ reqs[t].result = "send Escape"

(* C6: once an Enter has succeeded the nudge returns success whatever   *)
(* the two resize-pane commands return, and the +1 resize is submitted  *)
(* also after a failed -1 resize.                                       *)
C6_WakeFailuresSwallowed ==
    \A t \in ReqIds :
       IsPrompt(t) =>
          LET e == Enters(t)
              r == Resizes(t)
          IN /\ (reqs[t].pc = "done" /\ Len(e) > 0 /\ e[Len(e)].ok) =>
                   reqs[t].result = "ok"
             /\ (reqs[t].pc = "done" /\ Len(r) > 0) =>
                   (Len(r) = 2 /\ r[1].arg = "-1" /\ r[2].arg = "+1")
             /\ (Len(r) = 1) => reqs[t].pc = "restore"

(* A nudge returned success although both resize-pane commands failed. *)
C6_Witness ==
    \E t \in ReqIds :
       /\ IsPrompt(t) /\ reqs[t].pc = "done" /\ reqs[t].result = "ok"
       /\ Len(Resizes(t)) = 2
       /\ ~Resizes(t)[1].ok /\ ~Resizes(t)[2].ok

FramesFor(t) ==
    IF reqs[t].client \in Clients
    THEN SelectSeq(outq[reqs[t].client], LAMBDA f : f.id = t)
    ELSE <<>>

(* C7: a send-prompt for an agent that is not in the registry is        *)
(* answered {id, ok:false, "agent not found"}, submits no command and   *)
(* takes no per-agent lock; one with an empty agent or prompt field is  *)
(* answered with an error and submits nothing either.                   *)
C7_RejectedPromptHasNoEffect ==
    /\ \A t \in ReqIds :
          (/\ reqs[t].kind = "ws"
           /\ (reqs[t].agent = "" \/ reqs[t].prompt = ""
                  \/ registry[reqs[t].agent] = "absent")) =>
             /\ reqs[t].pc = "done"
             /\ \A a \in Agents : holder[a] # t
             /\ \A a \in Agents : \A i \in DOMAIN trace[a] : trace[a][i].req # t
             /\ IF reqs[t].agent = ""
                THEN FramesFor(t) = <<ErrorFrame(t, "agent field required")>>
                ELSE IF reqs[t].prompt = ""
                THEN FramesFor(t) = <<ErrorFrame(t, "prompt field required")>>
                ELSE FramesFor(t) =
                        <<JsonFrame(t, "send-prompt", "false", "agent not found")>>
    /\ \A a \in locks :
          \E t \in ReqIds :
             /\ reqs[t].agent = a
             /\ \/ reqs[t].kind = "upload"
                \/ (WellFormed(t) /\ registry[a] # "absent")

(* Send-prompts for a missing agent and with an empty prompt were       *)
(* answered.                                                            *)
C7_Witness ==
    /\ \E t \in ReqIds :
          /\ reqs[t].kind = "ws" /\ reqs[t].prompt # ""
          /\ reqs[t].agent \in Agents /\ registry[reqs[t].agent] = "absent"
    /\ \E t \in ReqIds :
          reqs[t].kind = "ws" /\ reqs[t].agent \in Agents /\ reqs[t].prompt = ""

(* ================================================================== *)
(* Properties of the output subscription path                          *)
(* ================================================================== *)
InFlight(c, a) == hpc[c].pc # "idle" /\ hpc[c].agent = a

FramesWithId(c, id) ==
    Cardinality({i \in DOMAIN outq[c] : outq[c][i].kind = "json" /\ outq[c][i].id = id})

(* C8: pipe-pane is active for an agent exactly while its refcount is   *)
(* positive, and once no client holds (or is creating) an output        *)
(* subscription for the agent - each has unsubscribed or disconnected - *)
(* the refcount is 0 and the tap is inactive.                           *)
C8_TapIffSubscribed ==
    \A a \in Agents :
       /\ tap[a] <=> refcount[a] > 0
       /\ refcount[a] = Cardinality(subs[a])
       /\ (\A c \in Clients : outputSubs[c][a] = 0 /\ ~InFlight(c, a))
             => (refcount[a] = 0 /\ ~tap[a])

(* C9: every (client, agent) pair has at most one fan-out subscription  *)
(* and at most one forwarding task on an open channel, however often    *)
(* the client subscribes, and every request has received exactly one    *)
(* response.                                                            *)
C9_OneSubscriptionPerPair ==
    /\ \A c \in Clients, a \in Agents :
          /\ Cardinality({ch \in subs[a] : chans[ch].owner = c}) <= 1
          /\ Cardinality({f \in forwarders :
                             f.client = c /\ f.agent = a /\ ~chans[f.ch].closed}) <= 1
    /\ \A c \in Clients : \A id \in 1..nsub[c] : FramesWithId(c, id) = 1

AckOf(ch) == JsonFrame(chans[ch].id, "subscribe-output", "true", "")

SnapshotOf(ch) == makeBinaryFrame(BinaryTerminalSnapshot, chans[ch].agent, ClearScreen, ch)

IsOutputOf(f, ch) == f.kind = "bin" /\ f.type = BinaryTerminalOutput /\ f.ch = ch

C11_NonStreamingHasNoSideEffects ==
    [][\A c \in Clients, a \in SubAgents :
          (handleSubscribeOutput(c, a, "false") /\ GetAgentOk(a)) =>
             /\ UNCHANGED <<outputSubs, chans, subs, refcount, tap, forwarders, hpc>>
             /\ \E captured \in BOOLEAN :
                   /\ trace' = [trace EXCEPT ![a] =
                          Append(@, Cmd(0, "capture-pane -p -e -S -", a, "", captured))]
                   /\ outq' = Enqueue(c,
                          [JsonFrame(nsub[c] + 1, "subscribe-output", "true", "")
                              EXCEPT !.payload = IF captured THEN "history" ELSE ""])
      ]_vars

(* A client holds an ack with the captured history while nothing is     *)
(* subscribed anywhere.                                                 *)
C11_Witness ==
    \E c \in Clients :
       /\ \E i \in DOMAIN outq[c] :
             /\ outq[c][i].kind = "json" /\ outq[c][i].type = "subscribe-output" /\ outq[c][i].ok = "true"
             /\ outq[c][i].payload = "history"
       /\ chans = <<>>
       /\ \E a \in Agents : trace[a] # <<>>

(* C12: a subscribe-output that fails - the agent is not in the         *)
(* registry, or the pipe-pane subscribe returned no channel - enqueues  *)
(* exactly one frame, an ok:false response with the request id and an   *)
(* error text, and changes neither the output-subscription tables nor   *)
(* the fan-out, submits no command and starts no forwarding task.       *)
C12_FailedSubscribeHasNoEffect ==
    [][\A c \in Clients, a \in SubAgents, stream \in StreamFlags :
          (/\ handleSubscribeOutput(c, a, stream)
           /\ \/ ~GetAgentOk(a)
              \/ (wantStream(stream) /\ Len(chans') = Len(chans))) =>
             /\ outq' = Enqueue(c, outq'[c][Len(outq[c]) + 1])
             /\ LET f == outq'[c][Len(outq[c]) + 1] IN
                   /\ f.kind = "json" /\ f.id = nsub[c] + 1
                   /\ f.type = "subscribe-output"
                   /\ f.ok = "false" /\ f.error # ""
             /\ UNCHANGED <<outputSubs, chans, subs, refcount, tap, forwarders, hpc, trace>>
      ]_vars

(* One subscribe-output was refused for a missing agent and one because *)
(* pipe-pane could not be started.                                      *)
C12_Witness ==
    /\ \E c \in Clients : \E i \in DOMAIN outq[c] :
          /\ outq[c][i].kind = "json" /\ outq[c][i].type = "subscribe-output" /\ outq[c][i].ok = "false"
          /\ outq[c][i].error = "agent not found"
    /\ \E c \in Clients : \E i \in DOMAIN outq[c] :
          /\ outq[c][i].kind = "json" /\ outq[c][i].type = "subscribe-output" /\ outq[c][i].ok = "false"
          /\ outq[c][i].error = "pipe-pane failed"

(* C13: unsubscribe-output with a non-empty agent enqueues the ok:true  *)
(* ack; when the client's table had an entry for the agent the entry is *)
(* removed and the fan-out unsubscribe runs once (the channel is closed *)
(* and the refcount drops by one); when it had none, no table and no    *)
(* fan-out state changes.                                               *)
C13_UnsubscribeOutputIdempotent ==
    [][\A c \in Clients, a \in SubAgents :
          handleUnsubscribeOutput(c, a) =>
             /\ outq' = Enqueue(c, JsonFrame(nsub[c] + 1, "unsubscribe-output", "true", ""))
             /\ outputSubs'[c][a] = 0
             /\ \A d \in Clients, b \in Agents :
                   <<d, b>> # <<c, a>> => outputSubs'[d][b] = outputSubs[d][b]
             /\ UNCHANGED <<forwarders, trace, hpc>>
             /\ IF outputSubs[c][a] # 0
                THEN /\ refcount'[a] = refcount[a] - 1
                     /\ chans'[outputSubs[c][a]].closed
                     /\ subs'[a] = subs[a] \ {outputSubs[c][a]}
                ELSE UNCHANGED <<outputSubs, chans, subs, refcount, tap>>
      ]_vars

(* A connected client has unsubscribed from an agent it was subscribed  *)
(* to: its channel is closed and its table entry is gone.               *)
C13_Witness ==
    \E c \in Clients, i \in ChanIds :
       /\ connected[c] /\ chans[i].owner = c /\ chans[i].closed
       /\ outputSubs[c][chans[i].agent] = 0
       /\ \E k \in DOMAIN outq[c] :
             outq[c][k].kind = "json" /\ outq[c][k].type = "unsubscribe-output"

(* ================================================================== *)
(* Properties of the agent lifecycle path                              *)
(* ================================================================== *)
RoundTrip(s, c) == ClearAgentSub(SetAgentSub(s, c), c)

(* C14 as stated: from any state, subscribe-agents followed by          *)
(* unsubscribe-agents on a client gives back the server state (client   *)
(* set, every agent-subscription flag, every output-subscription        *)
(* table).                                                              *)
C14_RoundTripFromAnyState ==
    \A c \in Clients : connected[c] => RoundTrip(ServerState, c) = ServerState

(* C14 amended: the same for a client whose agent-subscription flag is  *)
(* not set before the two requests.                                     *)
C14_RoundTripFromUnsubscribed ==
    \A c \in Clients :
       (connected[c] /\ ~agentSub[c]) => RoundTrip(ServerState, c) = ServerState

IsAck(f, type) == f.kind = "json" /\ f.type = type /\ f.ok = "true"

(* A client has been answered for subscribe-agents and then for         *)
(* unsubscribe-agents, and its flag is clear.                           *)
C14_Witness ==
    \E c \in Clients :
       /\ connected[c] /\ ~agentSub[c] /\ apc[c].pc = "idle"
       /\ \E i, j \in DOMAIN outq[c] :
             /\ i < j
             /\ IsAck(outq[c][i], "subscribe-agents")
             /\ IsAck(outq[c][j], "unsubscribe-agents")

IsEvent(f) ==
    f.kind = "json" /\ f.type \in {"agent-added", "agent-removed", "agent-updated"}

(* How often client c was sent event number n. *)
EventCount(c, n) ==
    Cardinality({i \in DOMAIN outq[c] : IsEvent(outq[c][i]) /\ outq[c][i].ch = n})

(* C15: a client receives lifecycle events only if it has sent          *)
(* subscribe-agents, no client receives an event twice, and a client    *)
(* that is connected with its flag set from the start of a broadcast    *)
(* has the event exactly once when the broadcast has passed it.         *)
C15_BroadcastToSubscribersOnly ==
    \A c \in Clients :
       /\ (\E i \in DOMAIN outq[c] : IsEvent(outq[c][i])) =>
             \/ apc[c].pc = "sub"
             \/ \E i \in DOMAIN outq[c] : IsAck(outq[c][i], "subscribe-agents")
       /\ \A n \in 1..nevents : EventCount(c, n) <= 1
       /\ (bcast.active /\ c \in bcast.steady \ bcast.todo) =>
             EventCount(c, bcast.ev.n) = 1

(* A broadcast has passed both clients: the subscribed one holds the    *)
(* event, the one that never subscribed holds nothing.                  *)
C15_Witness ==
    /\ bcast.active /\ bcast.todo = {}
    /\ \E c, d \in Clients :
          /\ c \in bcast.steady /\ EventCount(c, bcast.ev.n) = 1
          /\ connected[d] /\ nsub[d] = 0 /\ outq[d] = <<>>

(* The events a step has appended to the event channel. *)
Emitted == SubSeq(events', Len(events) + 1, Len(events'))

Times(evs, type, a) ==
    Cardinality({i \in DOMAIN evs : evs[i].type = type /\ evs[i].name = a})

Known(K) == {a \in Agents : K[a] # "absent"}

(* C16: a scan with known set K and detector output N emits exactly one *)
(* removed per name in K\N, one added per name in N\K, one updated per  *)
(* name in both whose attached flag differs, nothing else, and leaves   *)
(* the known set equal to N.                                            *)
C16_ScanEmitsSetDifference ==
    [][\A order \in ScanOrders :
          scan(order) =>
             /\ registry' = sessions
             /\ \A a \in Agents :
                   /\ Times(Emitted, "removed", a) =
                         (IF a \in Known(registry) \ Known(sessions) THEN 1 ELSE 0)
                   /\ Times(Emitted, "added", a) =
                         (IF a \in Known(sessions) \ Known(registry) THEN 1 ELSE 0)
                   /\ Times(Emitted, "updated", a) =
                         (IF /\ a \in Known(sessions) \cap Known(registry)
                             /\ registry[a] # sessions[a] THEN 1 ELSE 0)
             /\ \A i \in DOMAIN Emitted :
                   /\ Emitted[i].type \in {"removed", "added", "updated"}
                   /\ Emitted[i].name \in Agents
      ]_vars

(* One scan has emitted a removed event for one name and then an added  *)
(* event for another.                                                   *)
C16_Witness ==
    /\ Len(events) = 2 /\ registry = sessions
    /\ events[1].type = "removed" /\ events[2].type = "added"
    /\ events[1].name # events[2].name

(* C17: a scan that follows a hot reload of an agent (the process died  *)
(* and a new one was started in the same session) emits removed and     *)
(* then added for that name.                                            *)
C17_HotReloadRemovedThenAdded ==
    [][\A order \in ScanOrders, a \in Agents :
          (scan(order) /\ reloaded[a] /\ sessions[a] # "absent") =>
             \E i, j \in DOMAIN Emitted :
                /\ i < j
                /\ Emitted[i].type = "removed" /\ Emitted[i].name = a
                /\ Emitted[j].type = "added" /\ Emitted[j].name = a
      ]_vars

(* ================================================================== *)
(* Properties of the control connection                                *)
(* ================================================================== *)
Answered(i) == cmds[i].result \in {"ok", "error"}

IsMarker(line) == line.kind \in {"end", "error"}

StopOrderControlFirst == <<"http", "ctrl", "clients", "registry", "pipes">>

StopOrder == <<"http", "clients", "registry", "pipes", "ctrl">>

(* The step Stop is at. *)
StopAt(step) ==
    /\ Len(stop.steps) < Len(StopOrder)
    /\ StopOrder[Len(stop.steps) + 1] = step

(* The pipe-pane commands of a step that leaves only the taps in T'     *)
(* active, each with the state of the control connection it meets.      *)
PipePaneOff(after) ==
    LET off == {a \in Agents : tap[a] /\ ~after[a]}
        RECURSIVE List(_)
        List(S) == IF S = {} THEN <<>>
                   ELSE LET a == CHOOSE x \in S : TRUE
                        IN <<[cmd |-> "pipe-pane", target |-> a, open |-> ~conn.closed]>>
                           \o List(S \ {a})
    IN List(off)

(* 1. a.httpSrv.Shutdown(ctx) *)
StopHTTP ==
    /\ StopAt("http")
    /\ stop' = [stop EXCEPT !.steps = Append(@, "http")]
    /\ UNCHANGED <<cmu, cpc, cmds, tmux, inbound, parser, discard, reply, conn, web, otherVars>>

(* 2. a.wsSrv.CloseAll(): the client list is copied under the lock. *)
CloseAllCopy ==
    /\ StopAt("clients") /\ ~stop.copied
    /\ stop' = [stop EXCEPT !.copied = TRUE, !.todo = {c \in Clients : connected[c]}]
    /\ UNCHANGED <<cmu, cpc, cmds, tmux, inbound, parser, discard, reply, conn, web, otherVars>>

(* CloseAll: s.RemoveClient(c) for one client of the list. *)
CloseAllRemove(c) ==
    /\ StopAt("clients") /\ stop.copied /\ c \in stop.todo
    /\ IF connected[c]
       THEN /\ connected' = [connected EXCEPT ![c] = FALSE]
            /\ PipeUnsubscribe({outputSubs[c][a] : a \in Agents} \ {0})
            /\ outputSubs' = [outputSubs EXCEPT ![c] = [a \in Agents |-> 0]]
       ELSE UNCHANGED <<connected, chans, subs, refcount, tap, outputSubs>>
    /\ stop' = [stop EXCEPT !.todo = @ \ {c},
                            !.cmds = @ \o PipePaneOff(tap')]
    /\ UNCHANGED <<registry, trace, outq, hpc, nsub, forwarders, nchunks, promptVars,
                   lifeVars, cmu, cpc, cmds, tmux, inbound, parser, discard, reply, conn,
                   web, callVars>>

(* CloseAll returns. *)
CloseAllDone ==
    /\ StopAt("clients") /\ stop.copied /\ stop.todo = {}
    /\ stop' = [stop EXCEPT !.steps = Append(@, "clients")]
    /\ UNCHANGED <<cmu, cpc, cmds, tmux, inbound, parser, discard, reply, conn, web, otherVars>>

(* 3. a.registry.Stop() *)
RegistryStop ==
    /\ StopAt("registry")
    /\ stop' = [stop EXCEPT !.steps = Append(@, "registry"), !.registry = "stopped"]
    /\ UNCHANGED <<cmu, cpc, cmds, tmux, inbound, parser, discard, reply, conn, web, otherVars>>

(* 4. a.pipeMgr.StopAll(): every pipe-pane still active is stopped and  *)
(* the remaining subscriber channels are closed.                        *)
PipeStopAll ==
    /\ StopAt("pipes")
    /\ chans' = [i \in ChanIds |-> [chans[i] EXCEPT !.closed = TRUE]]
    /\ subs' = [a \in Agents |-> {}]
    /\ refcount' = [a \in Agents |-> 0]
    /\ tap' = [a \in Agents |-> FALSE]
    /\ stop' = [stop EXCEPT !.steps = Append(@, "pipes"),
                            !.cmds = @ \o PipePaneOff(tap')]
    /\ UNCHANGED <<registry, trace, outq, connected, outputSubs, hpc, nsub, forwarders,
                   nchunks, promptVars, lifeVars, cmu, cpc, cmds, tmux, inbound, parser,
                   discard, reply, conn, web, callVars>>

(* 5. a.ctrl.Close() *)
CtrlClose ==
    /\ StopAt("ctrl")
    /\ conn' = [conn EXCEPT !.closed = TRUE]
    /\ stop' = [stop EXCEPT !.steps = Append(@, "ctrl")]
    /\ UNCHANGED <<cmu, cpc, cmds, tmux, inbound, parser, discard, reply, web, otherVars>>

(* Clients with output subscriptions, and Stop at any moment. *)
NextStop ==
    \/ \E c \in Clients : outputSubs[c]["a1"] = 0 /\ handleSubscribeOutput(c, "a1", "true")
    \/ \E c \in Clients : SubscribeDrain(c)
    \/ \E c \in Clients : SubscribeSnapshot(c)
    \/ \E a \in SubAgents : PipeRead(a)
    \/ \E f \in forwarders : ForwardChunk(f)
    \/ \E f \in forwarders : ForwardExit(f)
    \/ StopHTTP
    \/ CloseAllCopy
    \/ \E c \in Clients : CloseAllRemove(c)
    \/ CloseAllDone
    \/ RegistryStop
    \/ PipeStopAll
    \/ CtrlClose

SpecStop == Init /\ [][NextStop]_vars

(* ================================================================== *)
(* Server.ServeHTTP and auth.IsAuthorizedRequest                       *)
(* ================================================================== *)

(* http.Error(w, "unauthorized", http.StatusUnauthorized) *)
StatusUnauthorized == "401 unauthorized"

(* websocket.Accept succeeded or failed *)
StatusAccepted == "accepted"

StatusAcceptFailed == "accept failed"

(* The requests: an Authorization header that is absent, Bearer or     *)
(* another scheme, with its value, and the token query parameter.      *)
Requests ==
    {[scheme |-> sc, value |-> v, query |-> q] :
        sc \in {"Bearer ", "Basic "}, v \in Strs, q \in Strs}
    \cup {[scheme |-> "", value |-> <<>>, query |-> q] : q \in Strs}

(* tokensEqual *)
tokensEqual(expected, actual) ==
    IF expected = <<>> \/ actual = <<>> THEN FALSE ELSE expected = actual

(* auth.IsAuthorizedRequest *)
IsAuthorizedRequest(expectedToken, r) ==
    LET token == TrimSpace(expectedToken)
        bearerToken == TrimSpace(r.value)
        queryToken == TrimSpace(r.query)
    IN IF token = <<>> THEN TRUE
       ELSE IF r.scheme = "Bearer " /\ tokensEqual(token, bearerToken) THEN TRUE
       ELSE tokensEqual(token, queryToken)

(* if !auth.IsAuthorizedRequest(s.authToken, r) *)
UnauthorizedNever(r) == FALSE

Unauthorized(r) == ~IsAuthorizedRequest(web.token, r)

(* Server.ServeHTTP up to the start of the pumps: the token check, the  *)
(* upgrade (which the origin check can refuse) and the client record.   *)
ServeHTTP(c, r) ==
    /\ ~connected[c]
    /\ IF Unauthorized(r)
       THEN /\ web' = [web EXCEPT !.last = [client |-> c, req |-> r,
                                            status |-> StatusUnauthorized]]
            /\ UNCHANGED connected
       ELSE \E accepted \in BOOLEAN :
            IF accepted
            THEN /\ web' = [web EXCEPT !.last = [client |-> c, req |-> r,
                                                 status |-> StatusAccepted]]
                 /\ connected' = [connected EXCEPT ![c] = TRUE]
            ELSE /\ web' = [web EXCEPT !.last = [client |-> c, req |-> r,
                                                 status |-> StatusAcceptFailed]]
                 /\ UNCHANGED connected
    /\ UNCHANGED <<registry, trace, outq, outputSubs, hpc, nsub, chans, subs, refcount, tap,
                   forwarders, nchunks, promptVars, lifeVars, cmu, cpc, cmds, tmux, inbound,
                   parser, discard, reply, conn, stop, callVars>>

(* Connection attempts at /ws and disconnects. *)
NextAuth ==
    \/ \E c \in Clients, r \in Requests : ServeHTTP(c, r)
    \/ \E c \in Clients : RemoveClient(c)

SpecAuth == InitAuth /\ [][NextAuth]_vars

(* ================================================================== *)
(* The paste payload of an uploaded file: buildPastePayload            *)
(* ================================================================== *)
maxInlinePasteBytes == 256 * 1024

(* The bytes at the two ends of a file: NUL, a control byte, tab, the   *)
(* letter A, the two bytes of U+00E9 and a byte no UTF-8 text holds.    *)
FileBytes == {0, 1, 9, 65, 195, 169, 255}

FillByte == 65

RECURSIVE SeqsUpTo(_, _)
SeqsUpTo(S, n) ==
    IF n = 0 THEN {<<>>}
    ELSE LET shorter == SeqsUpTo(S, n - 1)
         IN shorter \cup {Append(q, b) : q \in {r \in shorter : Len(r) = n - 1}, b \in S}

(* The lengths of the run in the middle of a file. *)
Fills == {0, 1, 4095, 4096, maxInlinePasteBytes - 1, maxInlinePasteBytes,
          maxInlinePasteBytes + 1}

UploadedFiles ==
    {File(head, fill, tail) : head \in SeqsUpTo(FileBytes, MaxHeadLen), fill \in Fills,
                              tail \in SeqsUpTo(FileBytes, 1)}

MimeTypes == {"text/plain", "text/html", "application/json", "application/xml",
              "application/x-yaml", "application/javascript", "application/octet-stream",
              "image/png", ""}

(* len(data) and data[i-1] *)
FileLen(data) == Len(data.head) + data.fill + Len(data.tail)

ByteAt(data, i) ==
    IF i <= Len(data.head) THEN data.head[i]
    ELSE IF i <= Len(data.head) + data.fill THEN FillByte
    ELSE data.tail[i - Len(data.head) - data.fill]

(* The positions of a file that do not lie in its run of letters. *)
EndPositions(data) ==
    (1..Len(data.head)) \cup ((Len(data.head) + data.fill + 1)..FileLen(data))

(* utf8.Valid on the bytes drawn here: an ASCII byte, or a lead byte    *)
(* 0xC2..0xDF followed by a continuation byte 0x80..0xBF.               *)
RECURSIVE ValidBytes(_)
ValidBytes(b) ==
    IF b = <<>> THEN TRUE
    ELSE IF b[1] < 128 THEN ValidBytes(Tail(b))
    ELSE IF b[1] >= 194 /\ b[1] <= 223 /\ Len(b) >= 2 /\ b[2] >= 128 /\ b[2] <= 191
    THEN ValidBytes(Tail(Tail(b)))
    ELSE FALSE

utf8Valid(data) ==
    IF data.fill > 0 THEN ValidBytes(data.head) /\ ValidBytes(data.tail)
    ELSE ValidBytes(data.head \o data.tail)

(* bytes.IndexByte(data, 0) >= 0 *)
HasNUL(data) == \E i \in EndPositions(data) : ByteAt(data, i) = 0

(* b < 0x20 && b != '\n' && b != '\r' && b != '\t' *)
IsControl(b) == b < 32 /\ b # 10 /\ b # 13 /\ b # 9

(* sample := data; if len(sample) > 4096 { sample = sample[:4096] } *)
SampleLen(data) == IF FileLen(data) > 4096 THEN 4096 ELSE FileLen(data)

isUTF8Text(data) ==
    IF FileLen(data) = 0 THEN TRUE
    ELSE IF ~utf8Valid(data) THEN FALSE
    ELSE IF HasNUL(data) THEN FALSE
    ELSE \A i \in EndPositions(data) : i <= SampleLen(data) => ~IsControl(ByteAt(data, i))

(* strings.HasPrefix(mimeType, "text/") *)
HasTextPrefix(mimeType) == mimeType \in {"text/plain", "text/html"}

(* isTextLike: each of its three returns is isUTF8Text(data). *)
isTextLike(mimeType, data) ==
    IF HasTextPrefix(mimeType) THEN isUTF8Text(data)
    ELSE IF mimeType \in {"application/json", "application/xml", "application/x-yaml",
                          "application/javascript"}
    THEN isUTF8Text(data)
    ELSE isUTF8Text(data)

(* len(fileBytes) <= maxInlinePasteBytes *)
FitsInlineBelowLimit(size) == size < maxInlinePasteBytes

FitsInline(size) == size <= maxInlinePasteBytes

(* buildPastePayload: "inline" is fileBytes, "path" is []byte(savedPath) *)
buildPastePayload(mimeType, fileBytes) ==
    IF FitsInline(FileLen(fileBytes)) /\ isTextLike(mimeType, fileBytes)
    THEN "inline" ELSE "path"

(* handleBinaryFileUpload: pastePayload := buildPastePayload(...), for  *)
(* one upload.                                                         *)
BuildPaste(mimeType, fileBytes) ==
    /\ pasted = NoPaste
    /\ pasted' = [mimeType |-> mimeType, fileBytes |-> fileBytes,
                  payload |-> buildPastePayload(mimeType, fileBytes)]
    /\ UNCHANGED <<registry, trace, outq, promptVars, subVars, lifeVars, cmu, cpc, cmds, tmux,
                   inbound, parser, discard, reply, conn, stop, web, keyed>>

NextPaste ==
    /\ pasted = NoPaste
    /\ \E mimeType \in MimeTypes, fileBytes \in UploadedFiles : BuildPaste(mimeType, fileBytes)

SpecPaste == Init /\ [][NextPaste]_vars

(* ================================================================== *)
(* Keyboard input: sendKeyboardPayload, tmuxKeyNameFromVT,             *)
(* SendKeysBytes and sendKeysHex                                       *)
(* ================================================================== *)

(* tmuxKeyNameFromVT: the cases of the switch, as <<payload, key name>> *)
VTKeysWithoutBTab ==
    {<<<<27, 91, 65>>, "Up">>, <<<<27, 79, 65>>, "Up">>}

VTKeys ==
    {<<<<27, 91, 90>>, "BTab">>,
     <<<<27, 91, 65>>, "Up">>, <<<<27, 79, 65>>, "Up">>,
     <<<<27, 91, 66>>, "Down">>, <<<<27, 79, 66>>, "Down">>,
     <<<<27, 91, 67>>, "Right">>, <<<<27, 79, 67>>, "Right">>,
     <<<<27, 91, 68>>, "Left">>, <<<<27, 79, 68>>, "Left">>,
     <<<<27, 91, 72>>, "Home">>, <<<<27, 79, 72>>, "Home">>,
     <<<<27, 91, 70>>, "End">>, <<<<27, 79, 70>>, "End">>,
     <<<<27, 91, 53, 126>>, "PgUp">>,
     <<<<27, 91, 54, 126>>, "PgDn">>,
     <<<<27, 91, 50, 126>>, "IC">>,
     <<<<27, 91, 51, 126>>, "DC">>,
     <<<<27, 79, 80>>, "F1">>,
     <<<<27, 79, 81>>, "F2">>,
     <<<<27, 79, 82>>, "F3">>,
     <<<<27, 79, 83>>, "F4">>,
     <<<<27, 91, 49, 53, 126>>, "F5">>,
     <<<<27, 91, 49, 55, 126>>, "F6">>,
     <<<<27, 91, 49, 56, 126>>, "F7">>,
     <<<<27, 91, 49, 57, 126>>, "F8">>,
     <<<<27, 91, 50, 48, 126>>, "F9">>,
     <<<<27, 91, 50, 49, 126>>, "F10">>,
     <<<<27, 91, 50, 51, 126>>, "F11">>,
     <<<<27, 91, 50, 52, 126>>, "F12">>,
     <<<<27>>, "Escape">>,
     <<<<127>>, "BSpace">>}

(* tmuxKeyNameFromVT: (name, ok) *)
tmuxKeyNameFromVT(payload) ==
    IF \E e \in VTKeys : e[1] = payload
    THEN [keyName |-> (CHOOSE e \in VTKeys : e[1] = payload)[2], ok |-> TRUE]
    ELSE [keyName |-> "", ok |-> FALSE]

(* sendKeysHex: const chunkSize = 128 *)
chunkSize == 128

(* end := start + chunkSize; if end > len(data) { end = len(data) } *)
ChunkEndWhole(start, n) == n

ChunkEnd(start, n) == IF start + chunkSize > n THEN n ELSE start + chunkSize

(* A command written by a ControlMode method, with what Execute         *)
(* returned for it.                                                     *)
KeyCmd(cmd, key, bytes, result) ==
    [cmd |-> cmd, key |-> key, bytes |-> bytes, result |-> result]

(* What Execute returns for the k-th send-keys -H of a call: a          *)
(* multiplexer that does not know -H rejects each of them when it       *)
(* parses the command; one that knows it runs them, and the failAt-th   *)
(* fails for another reason.                                            *)
HexResult(mux, k) ==
    IF ~mux.knowsH THEN "unknown flag -H"
    ELSE IF k = mux.failAt THEN "error" ELSE "ok"

(* sendKeysHex from offset start (0-based), the k-th iteration *)
RECURSIVE sendKeysHexFrom(_, _, _, _)
sendKeysHexFrom(data, start, k, mux) ==
    IF start >= Len(data) THEN [cmds |-> <<>>, err |-> ""]
    ELSE LET end == ChunkEnd(start, Len(data))
             r == HexResult(mux, k)
             c == KeyCmd("send-keys -H", "", SubSeq(data, start + 1, end), r)
         IN IF r # "ok" THEN [cmds |-> <<c>>, err |-> r]
            ELSE LET rest == sendKeysHexFrom(data, start + chunkSize, k + 1, mux)
                 IN [cmds |-> <<c>> \o rest.cmds, err |-> rest.err]

sendKeysHex(data, mux) == sendKeysHexFrom(data, 0, 1, mux)

(* strings.Contains(err.Error(), "unknown flag -H") *)
IsUnknownFlagH(err) == err = "unknown flag -H"

(* ControlMode.SendKeysBytes with the commands it submits *)
SendKeysBytesCmds(data, mux) ==
    IF Len(data) = 0 THEN [cmds |-> <<>>, err |-> ""]
    ELSE LET hex == sendKeysHex(data, mux)
         IN IF hex.err # ""
            THEN IF IsUnknownFlagH(hex.err)
                 THEN [cmds |-> Append(hex.cmds,
                                       KeyCmd("send-keys -l", "", data,
                                              IF mux.lastOk THEN "ok" ELSE "error")),
                       err |-> IF mux.lastOk THEN "" ELSE "error"]
                 ELSE hex
            ELSE [cmds |-> hex.cmds, err |-> ""]

(* sendKeyboardPayload with the commands it submits *)
sendKeyboardPayload(payload, mux) ==
    LET vt == tmuxKeyNameFromVT(payload)
    IN IF vt.ok
       THEN [cmds |-> <<KeyCmd("send-keys", vt.keyName, <<>>,
                               IF mux.lastOk THEN "ok" ELSE "error")>>,
             err |-> IF mux.lastOk THEN "" ELSE "error"]
       ELSE SendKeysBytesCmds(payload, mux)

(* The bytes i mod 256 for i = 1..n. *)
Ramp(n) == [i \in 1..n |-> i % 256]

Digits == 48..57

(* Keyboard payloads: ESC and DEL alone; ESC [ and ESC O followed by a  *)
(* capital letter; ESC [ digits ~ with one or two digits; payloads that *)
(* are no key sequence; and payloads around the chunk size.             *)
KeyPayloads ==
    {<<27>>, <<127>>}
    \cup {<<27, 91, x>> : x \in 65..90}
    \cup {<<27, 79, x>> : x \in 65..90}
    \cup {<<27, 91, d, 126>> : d \in Digits}
    \cup {<<27, 91, d, e, 126>> : d \in {49, 50}, e \in Digits}
    \cup {<<>>, <<97>>, <<13>>, <<27, 27>>, <<127, 127>>, <<27, 91>>, <<27, 91, 90, 90>>}
    \cup {Ramp(chunkSize * k + d) : k \in 1..MaxKeyChunks, d \in {-1, 0, 1}}

(* The multiplexer a call meets: it knows -H or not, which send-keys -H *)
(* fails otherwise (0: none), and whether the last command succeeds.    *)
Muxes ==
    [knowsH : BOOLEAN, failAt : 0..(MaxKeyChunks + 1), lastOk : BOOLEAN]

(* handleBinaryMessage, case BinaryKeyboardInput, for one frame *)
SendKeyboard(payload, mux) ==
    /\ keyed' = [called |-> TRUE, payload |-> payload,
                 cmds |-> sendKeyboardPayload(payload, mux).cmds,
                 err |-> sendKeyboardPayload(payload, mux).err]
    /\ UNCHANGED <<registry, trace, outq, promptVars, subVars, lifeVars, cmu, cpc, cmds, tmux,
                   inbound, parser, discard, reply, conn, stop, web, pasted>>

NextKeys ==
    /\ keyed = NoKeys
    /\ \E payload \in KeyPayloads, mux \in Muxes : SendKeyboard(payload, mux)

SpecKeys == Init /\ [][NextKeys]_vars

(* C21: once the end of the child's output has been seen the connection *)
(* stays in the fatal state and nothing is written to it any more (a    *)
(* later execute fails without writing), the notification channel is    *)
(* closed, and no command is pending and no caller is waiting: the      *)
(* commands pending at that moment have failed with the fatal kind.     *)
C21_ChildExitIsFatal ==
    [][/\ conn.dead => (conn'.dead /\ cmds' = cmds)
       /\ conn'.dead =>
             /\ conn'.notif = "closed"
             /\ \A k \in Callers : cpc'[k].pc # "wait"
             /\ \A i \in DOMAIN cmds' : cmds'[i].result # "pending"
             /\ cmu' = ""
      ]_vars

(* A command was pending when the child exited and failed fatally, and  *)
(* an execute after that was refused.                                   *)
C21_Witness ==
    /\ conn.dead /\ conn.refused > 0
    /\ \E i \in DOMAIN cmds : cmds[i].result = "fatal"
    /\ \E i \in DOMAIN cmds : cmds[i].result = "ok"

(* The output frames forwarded to its owner from channel ch, as chunk   *)
(* numbers in the order sent.                                           *)
Forwarded(ch) ==
    LET q == outq[chans[ch].owner]
        idx == {n \in 1..Len(q) : IsOutputOf(q[n], ch)}
        RECURSIVE Take(_)
        Take(n) == IF n > Len(q) THEN <<>>
                   ELSE IF n \in idx THEN <<q[n].payload>> \o Take(n + 1)
                   ELSE Take(n + 1)
    IN Take(1)

StrictlyIncreasing(sq) == \A m \in 1..Len(sq) - 1 : sq[m] < sq[m + 1]

(* C22: what a subscriber channel delivers is a subsequence, in order,  *)
(* of the chunks read after it subscribed: a channel starts empty, the  *)
(* only chunk ever put on it is the chunk the reader has just read, at  *)
(* the back and once, and the chunks forwarded from it followed by the  *)
(* chunks still buffered are strictly increasing read numbers.          *)
C22_DeliveredIsSubsequence ==
    /\ [](\A i \in ChanIds :
            /\ StrictlyIncreasing(Forwarded(i) \o chans[i].buf)
            /\ \A m \in 1..Len(chans[i].buf) : chans[i].buf[m] <= nchunks)
    /\ [][\A i \in 1..Len(chans') :
            IF i > Len(chans) THEN chans'[i].buf = <<>>
            ELSE LET b == chans[i].buf
                     b2 == chans'[i].buf
                 IN \/ b2 = b
                    \/ b # <<>> /\ b2 = Tail(b)
                    \/ b2 = <<>>
                    \/ /\ nchunks' = nchunks + 1
                       /\ i \in subs[chans[i].agent]
                       /\ b2 = Append(b, nchunks')
         ]_vars

(* A channel that subscribed after the first chunk was read has had a   *)
(* later chunk forwarded and holds another.                             *)
C22_Witness ==
    \E i \in ChanIds :
       /\ Len(Forwarded(i)) >= 1 /\ Len(chans[i].buf) >= 1
       /\ Forwarded(i)[1] > 1

(* C23: the reader is never held up by a subscriber: while the tap is   *)
(* active it can always read the next chunk, and each read gives the    *)
(* chunk to every registered channel whose own buffer has room and      *)
(* leaves a full channel as it is, whatever the other channels hold.    *)
C23_ReaderNeverBlocks ==
    /\ [](\A a \in SubAgents :
            (tap[a] /\ nchunks < MaxFanChunks) => ENABLED PipeReadMany(a))
    /\ [][\A a \in SubAgents :
            PipeReadMany(a) =>
               \A i \in subs[a] :
                  chans'[i].buf = IF Len(chans[i].buf) < ChanCap
                                  THEN Append(chans[i].buf, nchunks + 1)
                                  ELSE chans[i].buf
         ]_vars

(* One subscriber's channel is full with the first chunks and missed    *)
(* the last one, which another subscriber of the same agent received.   *)
C23_Witness ==
    \E i, j \in subs["a1"] :
       /\ i # j
       /\ Len(chans[i].buf) = ChanCap /\ chans[i].buf[ChanCap] < nchunks
       /\ \E m \in 1..Len(Forwarded(j) \o chans[j].buf) :
              (Forwarded(j) \o chans[j].buf)[m] = nchunks

(* Nothing is left for the service to do without a further client      *)
(* request: no event waits to be forwarded, no broadcast and no handler *)
(* is under way, no forwarder has a chunk to send, and a scan would     *)
(* find what the registry already knows.                                *)
Quiescent ==
    /\ events = <<>> /\ ~bcast.active
    /\ registry = sessions
    /\ \A c \in Clients : hpc[c].pc = "idle" /\ apc[c].pc = "idle"
    /\ \A f \in forwarders : chans[f.ch].buf = <<>>

(* C24: once the registry has removed a name and its removed event has  *)
(* been forwarded, with the service at rest, no subscriber channel, no  *)
(* client table entry and no active tap remains for that name.          *)
C24_RemovedEndsSubscriptions ==
    \A a \in SubAgents :
       (registry[a] = "absent" /\ Quiescent) =>
          /\ subs[a] = {}
          /\ ~tap[a]
          /\ \A c \in Clients : outputSubs[c][a] = 0

(* C25: a disconnected client has an empty output-subscription table    *)
(* and none of its channels is still registered with the fan-out, so    *)
(* the refcount of an agent counts channels of connected clients only.  *)
C25_DisconnectUnwindsSubscriptions ==
    \A c \in Clients :
       ~connected[c] =>
          /\ \A a \in Agents : outputSubs[c][a] = 0
          /\ \A a \in Agents : \A i \in subs[a] : chans[i].owner # c
          /\ \A a \in Agents :
                refcount[a] = Cardinality({i \in subs[a] : connected[chans[i].owner]})

IsPrefix(sq, of) == Len(sq) <= Len(of) /\ \A n \in 1..Len(sq) : sq[n] = of[n]

(* C26: the steps of a shutdown are taken in the order HTTP shutdown,   *)
(* clients closed, registry stopped, pipe-panes torn down, control      *)
(* connection closed; when the control connection is closed no client   *)
(* is connected, the registry is stopped and no tap is active; and no   *)
(* step has submitted a command on a closed control connection.         *)
C26_ControlConnectionClosedLast ==
    /\ IsPrefix(stop.steps, <<"http", "clients", "registry", "pipes", "ctrl">>)
    /\ conn.closed =>
          /\ \A c \in Clients : ~connected[c]
          /\ stop.registry = "stopped"
          /\ \A a \in Agents : ~tap[a] /\ subs[a] = {}
    /\ \A n \in 1..Len(stop.cmds) : stop.cmds[n].open

(* A shutdown has run to the end; closing the clients and tearing down  *)
(* the pipe-panes have each stopped a pipe-pane.                        *)
C26_Witness ==
    /\ conn.closed
    /\ Len(stop.cmds) >= 1
    /\ \E i \in ChanIds : chans[i].closed

(* The last request was let through the token check. *)
LastAuthorized == web.last.status # StatusUnauthorized

(* C27 as stated: without a configured token every request passes; with *)
(* one a request passes exactly when its Bearer value or its token      *)
(* parameter equals the configured token; a request that does not pass  *)
(* leaves no client record.                                             *)
C27_AuthorizedIffTokenEqual ==
    web.last # NoRequest =>
       LET r == web.last.req IN
       /\ web.configured = <<>> => LastAuthorized
       /\ web.configured # <<>> =>
             (LastAuthorized <=>
                \/ r.scheme = "Bearer " /\ r.value = web.configured
                \/ r.query = web.configured)
       /\ ~LastAuthorized => ~connected[web.last.client]

(* C27 amended: the tokens are compared after surrounding white space   *)
(* is trimmed, and a configured token of white space only counts as no  *)
(* token.                                                               *)
C27_AuthorizedIffTrimmedTokenEqual ==
    web.last # NoRequest =>
       LET r == web.last.req
           token == TrimSpace(web.configured)
       IN
       /\ token = <<>> => LastAuthorized
       /\ token # <<>> =>
             (LastAuthorized <=>
                \/ r.scheme = "Bearer " /\ TrimSpace(r.value) = token
                \/ TrimSpace(r.query) = token)
       /\ ~LastAuthorized => ~connected[web.last.client]

(* With a token configured, a request with a wrong Bearer value and an  *)
(* empty token parameter was answered 401 and its client is not         *)
(* connected.                                                           *)
C27_Witness ==
    /\ web.token = <<"s">>
    /\ web.last.status = StatusUnauthorized
    /\ web.last.req.scheme = "Bearer " /\ web.last.req.value = <<"x">>
    /\ web.last.req.query = <<>>
    /\ ~connected[web.last.client]

(* The frame was answered with an error whose text starts as given, and *)
(* nothing else happened: no command, no upload started.                *)
RejectedWith(c, prefix) ==
    /\ Len(outq'[c]) = Len(outq[c]) + 1
    /\ LET f == outq'[c][Len(outq'[c])] IN
          /\ f.kind = "json" /\ f.type = "error"
          /\ Len(f.error) >= Len(prefix)
          /\ f.error \in {prefix \o rest :
                rest \in {"", "frame too short", "missing agent separator",
                          "missing agent name", ": expected cols:rows",
                          ": non-numeric cols/rows", ": out of range"}}
    /\ trace' = trace /\ reqs' = reqs /\ locks' = locks /\ files' = files

(* No 0x00 byte follows the type byte. *)
NoSeparator(data) == \A n \in 2..Len(data) : data[n] # 0

(* The 0x00 byte follows the type byte at once. *)
EmptyName(data) == Len(data) >= 2 /\ data[2] = 0

(* C28: a binary frame without the 0x00 separator or with an empty      *)
(* agent name is answered with an error and reaches no handler; a       *)
(* well-formed frame with an unknown type byte is answered with an      *)
(* error and submits nothing.                                           *)
C28_MalformedFrameRejected ==
    [][\A c \in PromptClients : \A data \in Frames :
          handleBinaryMessage(c, data) =>
             /\ (NoSeparator(data) \/ EmptyName(data)) =>
                   RejectedWith(c, "invalid binary message: ")
             /\ (/\ ~NoSeparator(data) /\ ~EmptyName(data) /\ Len(data) >= 3
                 /\ data[1] \notin {2, 3, 4}) =>
                   RejectedWith(c, "unknown binary message type")
      ]_vars

(* Frames without a separator, with an empty name and with an unknown   *)
(* type have each been answered with their error.                       *)
C28_Witness ==
    \E c \in PromptClients :
       /\ \E n \in 1..Len(outq[c]) : outq[c][n].error = "unknown binary message type"
       /\ \E n \in 1..Len(outq[c]) :
             outq[c][n].error \in {"invalid binary message: missing agent separator",
                                   "invalid binary message: missing agent name"}

(* C29: a resize with cols < 2 or rows < 1 is answered with an error    *)
(* and submits no command; one with cols >= 2 and rows >= 1 submits     *)
(* exactly one resize-window command, with exactly those dimensions.    *)
C29_ResizeRange ==
    [][\A c \in PromptClients : \A name \in NameBytes :
       \A ct, rt \in {text \in NumberTexts : Atoi(text).ok} :
          LET data == <<3>> \o name \o <<0>> \o ct \o <<58>> \o rt
              a == AgentName(name)
              cols == Atoi(ct).val
              rows == Atoi(rt).val
          IN handleBinaryMessage(c, data) =>
                IF cols < 2 \/ rows < 1
                THEN RejectedWith(c, "invalid resize payload")
                ELSE /\ Len(trace'[a]) = Len(trace[a]) + 1
                     /\ LET cmd == trace'[a][Len(trace'[a])] IN
                           /\ cmd.cmd = "resize-window" /\ cmd.target = a
                           /\ cmd.arg = <<cols, rows>>
                     /\ \A b \in Agents \ {a} : trace'[b] = trace[b]
      ]_vars

(* A resize to 2x1 was submitted and a resize to 1x1 was refused. *)
C29_Witness ==
    /\ \E n \in 1..Len(trace["a1"]) :
          /\ trace["a1"][n].cmd = "resize-window"
          /\ trace["a1"][n].arg = <<2, 1>>
    /\ \E c \in PromptClients : \E n \in 1..Len(outq[c]) :
          outq[c][n].error = "invalid resize payload: out of range"

IsUpload(t) == reqs[t].kind = "upload"

(* C30: handleBinaryFileUpload lets a well-formed upload of exactly     *)
(* 8 MiB through (it is saved and pasted when the agent exists and the  *)
(* file system allows) and fails one of 8 MiB + 1 with the too-large    *)
(* error; an upload that failed as too large has saved no file and      *)
(* submitted no paste command.                                          *)
C30_UploadSizeLimit ==
    /\ [](\A t \in ReqIds :
            (IsUpload(t) /\ reqs[t].result = "too large") =>
               /\ \A n \in 1..Len(files) : files[n].req # t
               /\ TraceOf(t) = <<>>)
    /\ [][\A t \in ReqIds : \A parseOk, saveOk, tmpOk \in BOOLEAN :
            \A size \in {0, 8 * 1024 * 1024, 8 * 1024 * 1024 + 1} :
               UploadPrepareOf(t, parseOk, size, saveOk, tmpOk) =>
                  /\ (parseOk /\ size = 8 * 1024 * 1024 + 1) =>
                        /\ reqs'[t].result = "too large"
                        /\ files' = files /\ trace' = trace
                  /\ size <= 8 * 1024 * 1024 => reqs'[t].result # "too large"
                  /\ (/\ parseOk /\ size = 8 * 1024 * 1024
                      /\ GetAgentOk(reqs[t].agent) /\ saveOk /\ tmpOk) =>
                        /\ reqs'[t].pc = "loadw"
                        /\ files' = Append(files, [req |-> t, size |-> size])
         ]_vars

(* An upload of exactly 8 MiB was saved and pasted, and another upload  *)
(* was refused as too large.                                            *)
C30_Witness ==
    /\ \E t \in ReqIds :
          /\ IsUpload(t) /\ reqs[t].result = "ok"
          /\ \E n \in 1..Len(files) :
                files[n].req = t /\ files[n].size = 8 * 1024 * 1024
          /\ \E n \in 1..Len(TraceOf(t)) :
                TraceOf(t)[n].cmd = "paste-buffer -d" /\ TraceOf(t)[n].ok
    /\ \E t \in ReqIds : IsUpload(t) /\ reqs[t].result = "too large"

(* The mime types the paste payload rule lists, and text in the sense   *)
(* of the rule: valid UTF-8 without NUL and without a control byte      *)
(* other than tab, CR and LF at any position.                           *)
ListedTextMime(mimeType) ==
    mimeType \in {"text/plain", "text/html", "application/json", "application/xml",
                  "application/x-yaml", "application/javascript"}

CleanText(data) ==
    /\ ValidBytes(data.head) /\ ValidBytes(data.tail)
    /\ \A i \in EndPositions(data) : ByteAt(data, i) # 0 /\ ~IsControl(ByteAt(data, i))

(* C31: the paste payload of an uploaded file is the file contents iff  *)
(* the mime type begins with text/ or is one of the four listed         *)
(* application types, the size is at most 256 KiB and the bytes are     *)
(* valid UTF-8 with no NUL and no control byte other than tab, CR, LF   *)
(* anywhere in the file; in every other case, and always for image      *)
(* types, it is the saved path.                                         *)
C31_InlineIffListedText ==
    pasted # NoPaste =>
       /\ pasted.payload = "inline" <=>
             /\ ListedTextMime(pasted.mimeType)
             /\ FileLen(pasted.fileBytes) <= 256 * 1024
             /\ CleanText(pasted.fileBytes)
       /\ pasted.mimeType = "image/png" => pasted.payload = "path"

(* C32: a text/plain file of valid UTF-8 text of exactly 256 KiB is     *)
(* pasted inline, and such a file of 256 KiB + 1 bytes is pasted as the *)
(* saved path.                                                          *)
C32_InlineCutoff ==
    (pasted.mimeType = "text/plain" /\ CleanText(pasted.fileBytes)) =>
       /\ FileLen(pasted.fileBytes) = 256 * 1024 => pasted.payload = "inline"
       /\ FileLen(pasted.fileBytes) = 256 * 1024 + 1 => pasted.payload = "path"

C32_Witness ==
    /\ pasted.mimeType = "text/plain"
    /\ pasted.fileBytes = File(<<>>, 256 * 1024 - 1, <<9>>)
    /\ pasted.payload = "inline"

(* C33: when a multiplexer command submitted while a subscribe-output   *)
(* request is served fails, the handler enqueues an error response      *)
(* (not ok:true, with an error text) to a client in the same step: no   *)
(* request whose command failed is acknowledged with ok:true.           *)
C33_CommandErrorSurfaced ==
    [][\A a \in Agents :
          (/\ Len(trace'[a]) = Len(trace[a]) + 1
           /\ ~trace'[a][Len(trace'[a])].ok) =>
             \E c \in Clients :
                /\ Len(outq'[c]) = Len(outq[c]) + 1
                /\ LET f == outq'[c][Len(outq'[c])]
                   IN f.kind = "json" /\ f.ok # "true" /\ f.error # ""]_vars

(* The named-key table of the keyboard input rule: ESC [ Z, the arrows, *)
(* Home and End in both forms, the ESC [ n ~ keys, F1-F4 as ESC O P..S, *)
(* ESC and DEL.                                                         *)
CSI(final) == <<27, 91>> \o final

SS3(final) == <<27, 79, final>>

TildeKey(digits) == CSI(digits \o <<126>>)

NamedKeySequences ==
    [BTab |-> {CSI(<<90>>)},
     Up |-> {CSI(<<65>>), SS3(65)}, Down |-> {CSI(<<66>>), SS3(66)},
     Right |-> {CSI(<<67>>), SS3(67)}, Left |-> {CSI(<<68>>), SS3(68)},
     Home |-> {CSI(<<72>>), SS3(72)}, End |-> {CSI(<<70>>), SS3(70)},
     PgUp |-> {TildeKey(<<53>>)}, PgDn |-> {TildeKey(<<54>>)},
     IC |-> {TildeKey(<<50>>)}, DC |-> {TildeKey(<<51>>)},
     F1 |-> {SS3(80)}, F2 |-> {SS3(81)}, F3 |-> {SS3(82)}, F4 |-> {SS3(83)},
     F5 |-> {TildeKey(<<49, 53>>)}, F6 |-> {TildeKey(<<49, 55>>)},
     F7 |-> {TildeKey(<<49, 56>>)}, F8 |-> {TildeKey(<<49, 57>>)},
     F9 |-> {TildeKey(<<50, 48>>)}, F10 |-> {TildeKey(<<50, 49>>)},
     F11 |-> {TildeKey(<<50, 51>>)}, F12 |-> {TildeKey(<<50, 52>>)},
     Escape |-> {<<27>>}, BSpace |-> {<<127>>}]

NamesOf(payload) == {k \in DOMAIN NamedKeySequences : payload \in NamedKeySequences[k]}

(* The bytes the commands of a call have put into the session: those   *)
(* of its hex and literal send-keys that succeeded, in order.           *)
RECURSIVE Injected(_)
Injected(cs) ==
    IF cs = <<>> THEN <<>>
    ELSE (IF Head(cs).cmd # "send-keys" /\ Head(cs).result = "ok" THEN Head(cs).bytes
          ELSE <<>>) \o Injected(Tail(cs))

HexCmds(cs) == SelectSeq(cs, LAMBDA c : c.cmd = "send-keys -H")

RECURSIVE Concat(_)
Concat(cs) == IF cs = <<>> THEN <<>> ELSE Head(cs).bytes \o Concat(Tail(cs))

(* C34: a keyboard payload that is exactly one of the listed VT         *)
(* sequences is sent as one send-keys command with the key name of the  *)
(* table and nothing else; every other payload is sent on the byte path *)
(* only (no named key), and when the call succeeds the bytes injected   *)
(* are the payload.                                                     *)
C34_NamedKeyOrExactBytes ==
    keyed.called =>
       IF NamesOf(keyed.payload) # {}
       THEN /\ Len(keyed.cmds) = 1
            /\ keyed.cmds[1].cmd = "send-keys"
            /\ NamesOf(keyed.payload) = {keyed.cmds[1].key}
       ELSE /\ \A n \in 1..Len(keyed.cmds) : keyed.cmds[n].cmd # "send-keys"
            /\ keyed.err = "" => Injected(keyed.cmds) = keyed.payload

C34_Witness ==
    /\ keyed.called
    /\ keyed.payload = <<27, 91, 90>>
    /\ keyed.cmds = <<KeyCmd("send-keys", "BTab", <<>>, "ok")>>

C36_NoInjectionDuringPrompt ==
    \A a \in Agents :
       \A i, j, k \in 1..Len(trace[a]) :
          (/\ i < j /\ j < k
           /\ trace[a][i].req # 0 /\ trace[a][i].cmd = "send-keys -l"
           /\ trace[a][k].req = trace[a][i].req
           /\ trace[a][k].cmd = "send-keys" /\ trace[a][k].arg = "Enter") =>
             trace[a][j].cmd \notin {"send-keys -H", "send-keys -l", "send-keys"}
             \/ trace[a][j].req = trace[a][i].req

(* C37: a lifecycle event that follows the unsubscribe-agents ack in a  *)
(* client's queue was enqueued after the client sent subscribe-agents   *)
(* again: the handler of that request has set the flag, or its ack is   *)
(* in the queue.                                                        *)
C37_NoEventAfterUnsubscribeAck ==
    \A c \in Clients :
       \A i, j \in DOMAIN outq[c] :
          (i < j /\ IsAck(outq[c][i], "unsubscribe-agents") /\ IsEvent(outq[c][j])) =>
             \/ apc[c].pc = "sub"
             \/ \E k \in DOMAIN outq[c] : k > i /\ IsAck(outq[c][k], "subscribe-agents")

(* The broadcast of event number n has passed client c. *)
BroadcastPassed(c, n) ==
    /\ \A i \in DOMAIN events : events[i].n # n
    /\ ~(bcast.active /\ bcast.ev.n = n /\ c \in bcast.todo)

(* Client c has been answered for subscribe-agents, is connected and    *)
(* has not asked to unsubscribe.                                        *)
StillSubscribed(c) ==
    /\ connected[c] /\ apc[c].pc # "unsub"
    /\ \E k \in DOMAIN outq[c] : IsAck(outq[c][k], "subscribe-agents")
    /\ \A k \in DOMAIN outq[c] : ~IsAck(outq[c][k], "unsubscribe-agents")

(* C38: a lifecycle subscriber misses no change: every event whose      *)
(* broadcast has passed the client is in the client's queue exactly     *)
(* once, or was emitted before the agents list of its subscribe-agents  *)
(* ack was read, and that list is the registry as it was then.          *)
C38_SubscriberMissesNoChange ==
    /\ [](\A c \in Clients :
            StillSubscribed(c) =>
               \A n \in 1..nevents :
                  BroadcastPassed(c, n) =>
                     \/ EventCount(c, n) = 1
                     \/ \E k \in DOMAIN outq[c] :
                           IsAck(outq[c][k], "subscribe-agents") /\ n <= outq[c][k].ch)
    /\ [][\A c \in Clients :
             (apc[c].pc = "sub" /\ apc'[c].pc = "idle") =>
                LET ack == outq'[c][Len(outq'[c])]
                IN /\ Len(outq'[c]) = Len(outq[c]) + 1
                   /\ agentSub[c]
                   /\ IsAck(ack, "subscribe-agents")
                   /\ ack.payload = registry /\ ack.ch = nevents]_vars

(* A subscriber whose list already held the first change has been sent  *)
(* the second one.                                                      *)
C38_Witness ==
    \E c \in Clients :
       /\ StillSubscribed(c)
       /\ nevents = 2 /\ BroadcastPassed(c, 1) /\ BroadcastPassed(c, 2)
       /\ EventCount(c, 1) = 0 /\ EventCount(c, 2) = 1
       /\ \E k \in DOMAIN outq[c] : IsAck(outq[c][k], "subscribe-agents") /\ outq[c][k].ch = 1

(* C39: a binary output frame for an agent is enqueued to a connected   *)
(* client only while the client holds an output subscription for that   *)
(* agent: none after the unsubscribe-output ack, which is enqueued in   *)
(* the step that deletes the entry, until the client subscribes again.  *)
C39_NoOutputAfterUnsubscribeAck ==
    [][\A c \in Clients :
          (connected[c] /\ Len(outq'[c]) = Len(outq[c]) + 1) =>
             LET f == outq'[c][Len(outq'[c])]
             IN (f.kind = "bin" /\ f.type = BinaryTerminalOutput) =>
                   outputSubs[c][f.agent] # 0]_vars

(* The responses in the queue of its client that carry the id of        *)
(* request t.                                                           *)
ResponsesTo(t) ==
    {i \in DOMAIN outq[reqs[t].client] : outq[reqs[t].client][i].id = t}

(* C40: a send-prompt request that is finished has exactly one response *)
(* with its id, which says ok:true iff the choreography returned no     *)
(* error, one that is not finished has none yet, and a finished request *)
(* of any kind holds no lock; when the commands return and the          *)
(* goroutines are scheduled, again and again every prompt and upload    *)
(* read so far is finished (a finished request stays finished, so each  *)
(* one is finished eventually).                                         *)
C40_OneResponseAndLockReleased ==
    /\ [](\A t \in ReqIds :
            /\ reqs[t].kind = "ws" =>
                  IF reqs[t].pc = "done"
                  THEN /\ Cardinality(ResponsesTo(t)) = 1
                       /\ \A i \in ResponsesTo(t) :
                             outq[reqs[t].client][i].ok = "true" <=> reqs[t].result = "ok"
                  ELSE ResponsesTo(t) = {}
            /\ reqs[t].pc = "done" => \A a \in Agents : holder[a] # t)
    /\ []<>(\A t \in ReqIds : reqs[t].pc = "done")

(* A prompt that waited for the lock of its agent behind another one    *)
(* has been answered ok:true after the first one failed.                *)
C40_Witness ==
    \E t1, t2 \in ReqIds :
       /\ t1 < t2 /\ reqs[t1].agent = reqs[t2].agent
       /\ reqs[t1].kind = "ws" /\ reqs[t2].kind = "ws"
       /\ reqs[t1].pc = "done" /\ reqs[t1].result = "send Escape"
       /\ reqs[t2].pc = "done" /\ reqs[t2].result = "ok"
       /\ Len(trace[reqs[t1].agent]) >= 2
       /\ trace[reqs[t1].agent][1].req = t1 /\ trace[reqs[t1].agent][2].req = t1


==============================================================================
